---- MODULE Spec2Model ----
(***************************************************************************)
(* Model of the FoodMonitoring portal (src/main.py, src/models.py):        *)
(* the users table, the per-institution file store with its manifest.json  *)
(* sidecar, the three TTL caches, and the HTTP handlers that act on them.  *)
(*                                                                         *)
(* Conventions                                                             *)
(*  - a path is the sequence of its components below BASE_DIR;             *)
(*    a filename is its "/"-split component sequence, so <<"a.pdf">> is    *)
(*    "a.pdf" and <<"..", "..", "3", "food", "a.pdf">> is                  *)
(*    "../../3/food/a.pdf";                                                *)
(*  - a string that the code compares with < (sorted keys) is kept as its  *)
(*    sequence of Unicode code points;                                     *)
(*  - every handler is one action: it maps the world (the record World)    *)
(*    to the world after the request and a response.                       *)
(***************************************************************************)
EXTENDS Integers, Sequences, FiniteSets, TLC

VARIABLES
    users,              \* the users table, in id order (id = position)
    dirs,               \* directories that exist below BASE_DIR
    files,              \* path -> content, for every regular file below BASE_DIR
    MANIFEST_CACHE,     \* str(manifest path) -> dict
    USER_CACHE,         \* user id -> User
    FILE_EXISTS_CACHE,  \* str(file path) -> bool
    clock,              \* minutes elapsed on the wall clock (datetime.utcnow)
    req,                \* the request handled last
    resp,               \* its response
    tasks,              \* the coroutines of the event loop: task id -> its frame
    CACHE_LOCK,         \* the task inside "async with CACHE_LOCK", 0 when free
    heap                \* dict objects by identity, where aliasing is followed

vars == <<users, dirs, files, MANIFEST_CACHE, USER_CACHE, FILE_EXISTS_CACHE,
          clock, req, resp, tasks, CACHE_LOCK, heap>>

\* what the actions that handle a whole request at once leave alone
loop == <<tasks, CACHE_LOCK, heap>>

-----------------------------------------------------------------------------
(* Bounds of the model *)

MaxUsers == 3       \* rows the users table may hold
MaxClock == 2       \* minutes the wall clock may advance

-----------------------------------------------------------------------------
(* Reference constants *)

REGIONAL_CODE == "alu1212993"
MUNICIPAL_CODE == "rayonadmin3377%"

\* Python's None for an absent optional form field
None == "<None>"

\* the decimal digits of n, zero-padded to the given width, as code points
Digits(n, width) == [i \in 1..width |-> 48 + ((n \div (10 ^ (width - i))) % 10)]

\* the localized name of calendar month n, as code points
MonthName(n) ==
    CASE n = 1 -> <<1071, 1085, 1074, 1072, 1088, 1100>>                 \* Yanvar
      [] n = 2 -> <<1060, 1077, 1074, 1088, 1072, 1083, 1100>>           \* Fevral
      [] n = 3 -> <<1052, 1072, 1088, 1090>>                             \* Mart
      [] n = 4 -> <<1040, 1087, 1088, 1077, 1083, 1100>>                 \* Aprel
      [] n = 5 -> <<1052, 1072, 1081>>                                   \* Mai
      [] n = 6 -> <<1048, 1102, 1085, 1100>>                             \* Iyun
      [] n = 7 -> <<1048, 1102, 1083, 1100>>                             \* Iyul
      [] n = 8 -> <<1040, 1074, 1075, 1091, 1089, 1090>>                 \* Avgust
      [] n = 9 -> <<1057, 1077, 1085, 1090, 1103, 1073, 1088, 1100>>     \* Sentyabr
      [] n = 10 -> <<1054, 1082, 1090, 1103, 1073, 1088, 1100>>          \* Oktyabr
      [] n = 11 -> <<1053, 1086, 1103, 1073, 1088, 1100>>                \* Noyabr
      [] n = 12 -> <<1044, 1077, 1082, 1072, 1073, 1088, 1100>>          \* Dekabr

\* the two-digit month codes "01" .. "12"
MonthCodes == {Digits(n, 2) : n \in 1..12}

\* MONTHS: month code -> localized month name
MONTHS == [c \in MonthCodes |-> MonthName(10 * (c[1] - 48) + (c[2] - 48))]

\* MONTHS.get(assigned_month, assigned_month)
MonthsGet(code) == IF code \in DOMAIN MONTHS THEN MONTHS[code] ELSE code

-----------------------------------------------------------------------------
(* Generic helpers *)

\* dict without key k (del d[k] / d.pop(k, None))
DictDel(d, k) == [x \in (DOMAIN d) \ {k} |-> d[x]]

\* dict with d[k] = v
DictSet(d, k, v) == [x \in (DOMAIN d) \cup {k} |-> IF x = k THEN v ELSE d[x]]

EmptyDict == [x \in {} |-> 0]

\* Python's str/tuple ordering on code point sequences: a < b
RECURSIVE SeqLess(_, _)
SeqLess(a, b) ==
    IF b = <<>> THEN FALSE
    ELSE IF a = <<>> THEN TRUE
    ELSE IF Head(a) # Head(b) THEN Head(a) < Head(b)
    ELSE SeqLess(Tail(a), Tail(b))

-----------------------------------------------------------------------------
(* The world record the handlers are functions of *)

World ==
    [users |-> users, dirs |-> dirs, files |-> files,
     MANIFEST_CACHE |-> MANIFEST_CACHE, USER_CACHE |-> USER_CACHE,
     FILE_EXISTS_CACHE |-> FILE_EXISTS_CACHE, clock |-> clock]

SetWorld(w) ==
    /\ users' = w.users
    /\ dirs' = w.dirs
    /\ files' = w.files
    /\ MANIFEST_CACHE' = w.MANIFEST_CACHE
    /\ USER_CACHE' = w.USER_CACHE
    /\ FILE_EXISTS_CACHE' = w.FILE_EXISTS_CACHE
    /\ clock' = w.clock

WorldIs(w) ==
    /\ users = w.users
    /\ dirs = w.dirs
    /\ files = w.files
    /\ MANIFEST_CACHE = w.MANIFEST_CACHE
    /\ USER_CACHE = w.USER_CACHE
    /\ FILE_EXISTS_CACHE = w.FILE_EXISTS_CACHE
    /\ clock = w.clock

\* responses
Response(kind, status, path, id, body) ==
    [kind |-> kind, status |-> status, path |-> path, id |-> id, body |-> body]

Redirect(status, path, id) == Response("redirect", status, path, id, <<>>)
PlainText(msg) == Response("text", 200, msg, 0, <<>>)
Html(body) == Response("html", 200, "", 0, body)
\* a StreamingResponse whose generator raised after the status line went out
StreamAborted(body) == Response("stream-aborted", 200, "", 0, body)
FileResponse(path) == Response("file", 200, "", 0, path)
HttpError(status) == Response("error", status, "", 0, <<>>)
NoResponse == Response("none", 0, "", 0, <<>>)

-----------------------------------------------------------------------------
(* Filesystem: pathlib and the OS *)

BASE_DIR == <<>>

\* BASE_DIR / str(uid) / "food"
FoodPath(uid) == BASE_DIR \o <<ToString(uid), "food">>

\* all prefixes of a directory path (mkdir parents=True creates each)
Prefixes(p) == {SubSeq(p, 1, n) : n \in 0..Len(p)}

\* food_path.mkdir(parents=True, exist_ok=True)
Mkdir(w, p) == [w EXCEPT !.dirs = @ \cup Prefixes(p)]

\* The kernel's path walk from BASE_DIR: "ok" and the real location, or not ok
\* when a component that must be a directory is not one.
RECURSIVE Walk(_, _, _)
Walk(w, cur, rest) ==
    IF rest = <<>> THEN [ok |-> TRUE, at |-> cur]
    ELSE IF cur \notin w.dirs THEN [ok |-> FALSE, at |-> cur]
    ELSE IF Head(rest) = ".."
         THEN Walk(w, IF cur = <<>> THEN cur ELSE SubSeq(cur, 1, Len(cur) - 1), Tail(rest))
         ELSE Walk(w, Append(cur, Head(rest)), Tail(rest))

Resolve(w, p) == Walk(w, BASE_DIR, p)

\* Path.exists()
PathExists(w, p) ==
    LET r == Resolve(w, p) IN r.ok /\ (r.at \in w.dirs \/ r.at \in DOMAIN w.files)

\* Path.is_file()
IsFile(w, p) ==
    LET r == Resolve(w, p) IN r.ok /\ r.at \in DOMAIN w.files

\* open(p, "w"/"wb") succeeds: the parent is a directory and p is not one
CanOpenForWrite(w, p) ==
    LET r == Resolve(w, p) IN
    /\ r.ok
    /\ r.at # <<>>
    /\ r.at \notin w.dirs
    /\ SubSeq(r.at, 1, Len(r.at) - 1) \in w.dirs

\* the file written (caller checked CanOpenForWrite)
WriteFile(w, p, content) ==
    [w EXCEPT !.files = DictSet(@, Resolve(w, p).at, [content EXCEPT !.mtime = w.clock])]

\* Path.unlink() succeeds on a regular file only
Unlink(w, p) == [w EXCEPT !.files = DictDel(@, Resolve(w, p).at)]

\* file contents: raw bytes, or the text json.dumps produced for a dict
Bytes(b) == [kind |-> "bytes", bytes |-> b, doc |-> EmptyDict, mtime |-> 0]
JsonDumps(d) == [kind |-> "json", bytes |-> <<>>, doc |-> d, mtime |-> 0]

\* read_manifest's parse: json.loads(content) if content else {}; a parse error
\* is swallowed and leaves {}
JsonLoadsOrEmpty(c) == IF c.kind = "json" THEN c.doc ELSE EmptyDict

-----------------------------------------------------------------------------
(* Credential component (auth.py) *)

get_password_hash(password) == <<"digest", password>>

verify_password(password, digest) == digest = <<"digest", password>>

-----------------------------------------------------------------------------
(* Users table *)

\* db.query(User).filter(User.email == email).first()
UsersByEmail(w, email) == {i \in 1..Len(w.users) : w.users[i].email = email}

\* db.query(User).filter(User.id == user_id).first(): the row, or NoUser for None
NoUser ==
    [id |-> 0, email |-> "", hashed_password |-> <<>>, role |-> "", unit_name |-> "",
     district |-> "", food_type |-> ""]

UserById(w, id) == IF id \in 1..Len(w.users) THEN w.users[id] ELSE NoUser

NewUser(id, email, password, unit_name, district, food_type, role) ==
    [id |-> id, email |-> email, hashed_password |-> get_password_hash(password),
     role |-> role, unit_name |-> unit_name, district |-> district,
     food_type |-> food_type]

\* register, lines 335-340
RoleForCodeNoMunicipal(secret_code) ==
    IF secret_code = REGIONAL_CODE THEN "regional_admin" ELSE "user"

RoleForCode(secret_code) ==
    IF secret_code = REGIONAL_CODE THEN "regional_admin"
    ELSE IF secret_code = MUNICIPAL_CODE THEN "municipal_admin"
    ELSE "user"

\* register, lines 329-332: existing_user is not None
EmailTakenNever(w, email) == FALSE

EmailTaken(w, email) == UsersByEmail(w, email) # {}

\* POST /register
register(w, email, password, unit_name, district, food_type, secret_code) ==
    IF EmailTaken(w, email)
    THEN [w |-> w, resp |-> PlainText("user exists")]
    ELSE LET id == Len(w.users) + 1
             new_user == NewUser(id, email, password, unit_name, district,
                                 food_type, RoleForCode(secret_code))
             w1 == [w EXCEPT !.users = Append(@, new_user)]
             w2 == Mkdir(w1, FoodPath(id))
         IN [w |-> w2, resp |-> Redirect(303, "/login", 0)]

\* "admin" in user.role
RoleContainsAdmin(role) == role \in {"regional_admin", "municipal_admin"}

LoginTargetSwapped(user) ==
    IF RoleContainsAdmin(user.role)
    THEN Redirect(303, "/dashboard", user.id)
    ELSE Redirect(303, "/admin", user.id)

LoginTarget(user) ==
    IF RoleContainsAdmin(user.role)
    THEN Redirect(303, "/admin", user.id)
    ELSE Redirect(303, "/dashboard", user.id)

\* POST /login
login(w, email, password) ==
    LET found == UsersByEmail(w, email) IN
    IF found = {} THEN [w |-> w, resp |-> PlainText("bad login")]
    ELSE LET user == w.users[CHOOSE i \in found : \A j \in found : i <= j] IN
         IF ~verify_password(password, user.hashed_password)
         THEN [w |-> w, resp |-> PlainText("bad login")]
         ELSE [w |-> w, resp |-> LoginTarget(user)]

-----------------------------------------------------------------------------
(* Wall clock and strftime *)

\* the UTC minute of the day at clock = 0, on 31.12.2024 (20:58 UTC)
StartMinute == 20 * 60 + 58

\* get_msk_time(): datetime.utcnow() + timedelta(hours=3), as calendar fields.
\* Day 0 is 31.12.2024; the days after it are January 2025.
MskOffsetHours == 3

DateTimeOf(minutes) ==
    LET day == minutes \div 1440
        minute == minutes % 1440
    IN [year |-> IF day = 0 THEN 2024 ELSE 2025,
        month |-> IF day = 0 THEN 12 ELSE 1,
        day |-> IF day = 0 THEN 31 ELSE day,
        hour |-> minute \div 60,
        minute |-> minute % 60]

get_msk_time(w) == DateTimeOf(StartMinute + w.clock + MskOffsetHours * 60)

\* dt.strftime("%d.%m.%Y %H:%M")
Strftime(dt) ==
    Digits(dt.day, 2) \o <<46>> \o Digits(dt.month, 2) \o <<46>> \o Digits(dt.year, 4)
        \o <<32>> \o Digits(dt.hour, 2) \o <<58>> \o Digits(dt.minute, 2)

-----------------------------------------------------------------------------
(* Caching layer and file primitives *)

get_cached_user_store_none(w, user_id) ==
    IF user_id \in DOMAIN w.USER_CACHE
    THEN [w |-> w, user |-> w.USER_CACHE[user_id]]
    ELSE LET user == UserById(w, user_id) IN
         [w |-> [w EXCEPT !.USER_CACHE = DictSet(@, user_id, user)], user |-> user]

\* get_cached_user: the user (NoUser for None), cached when found
get_cached_user(w, user_id) ==
    IF user_id \in DOMAIN w.USER_CACHE
    THEN [w |-> w, user |-> w.USER_CACHE[user_id]]
    ELSE LET user == UserById(w, user_id) IN
         IF user # NoUser
         THEN [w |-> [w EXCEPT !.USER_CACHE = DictSet(@, user_id, user)], user |-> user]
         ELSE [w |-> w, user |-> user]

\* read_manifest_optimized: the dict, and how many times the filesystem was touched
read_manifest_optimized(w, file_path) ==
    IF file_path \in DOMAIN w.MANIFEST_CACHE
    THEN [w |-> w, manifest |-> w.MANIFEST_CACHE[file_path], fs_reads |-> 0]
    ELSE LET manifest == IF IsFile(w, file_path)
                         THEN JsonLoadsOrEmpty(w.files[Resolve(w, file_path).at])
                         ELSE EmptyDict
         IN [w |-> [w EXCEPT !.MANIFEST_CACHE = DictSet(@, file_path, manifest)],
             manifest |-> manifest, fs_reads |-> 1]

\* write_manifest_optimized: raises (ok = FALSE) when the file cannot be opened;
\* the cache is set only after the write
write_manifest_no_cache(w, file_path, manifest) ==
    IF ~CanOpenForWrite(w, file_path) THEN [w |-> w, ok |-> FALSE]
    ELSE [w |-> WriteFile(w, file_path, JsonDumps(manifest)), ok |-> TRUE]

write_manifest_optimized(w, file_path, manifest) ==
    IF ~CanOpenForWrite(w, file_path) THEN [w |-> w, ok |-> FALSE]
    ELSE LET w1 == WriteFile(w, file_path, JsonDumps(manifest)) IN
         [w |-> [w1 EXCEPT !.MANIFEST_CACHE = DictSet(@, file_path, manifest)],
          ok |-> TRUE]

\* an UploadFile: its name, its bytes and the read cursor
UploadFile(filename, content) == [filename |-> filename, content |-> content, pos |-> 0]

\* file.read(): the bytes from the cursor on; the cursor moves to the end
FileRead(file) == SubSeq(file.content, file.pos + 1, Len(file.content))

AfterRead(file) == [file EXCEPT !.pos = Len(file.content)]

\* save_uploaded_file_optimized: raises (ok = FALSE) when dest_path cannot be opened
save_uploaded_file_optimized(w, file, dest_path) ==
    IF ~CanOpenForWrite(w, dest_path)
    THEN [w |-> w, file |-> AfterRead(file), ok |-> FALSE]
    ELSE LET w1 == WriteFile(w, dest_path, Bytes(FileRead(file))) IN
         [w |-> [w1 EXCEPT !.FILE_EXISTS_CACHE = DictSet(@, dest_path, TRUE)],
          file |-> AfterRead(file), ok |-> TRUE]

\* delete_file_optimized: unlink raises on a directory, the except swallows it
delete_file_optimized(w, file_path) ==
    IF ~PathExists(w, file_path) THEN w
    ELSE IF ~IsFile(w, file_path) THEN w
    ELSE LET w1 == Unlink(w, file_path) IN
         [w1 EXCEPT !.FILE_EXISTS_CACHE = DictDel(@, file_path)]

\* list_directory_files_optimized: the names of the regular files in the directory
list_directory_files_optimized(w, path) ==
    IF ~PathExists(w, path) THEN {}
    ELSE LET at == Resolve(w, path).at IN
         {p[Len(p)] : p \in {q \in DOMAIN w.files : Len(q) = Len(at) + 1
                                                    /\ SubSeq(q, 1, Len(at)) = at}}

-----------------------------------------------------------------------------
(* Upload and delete handlers *)

ManifestPath(uid) == FoodPath(uid) \o <<"manifest.json">>

\* the manifest entry both upload handlers record, lines 456-462 and 556-562
ManifestEntrySwapped(w, year, month, uploader_name, uploader_ip) ==
    [assigned_year |-> month, assigned_month |-> year,
     uploader_name |-> uploader_name, uploader_ip |-> uploader_ip,
     upload_datetime |-> Strftime(get_msk_time(w))]

ManifestEntry(w, year, month, uploader_name, uploader_ip) ==
    [assigned_year |-> year, assigned_month |-> month,
     uploader_name |-> uploader_name, uploader_ip |-> uploader_ip,
     upload_datetime |-> Strftime(get_msk_time(w))]

\* for file in files: skip the empty name, save the file, set manifest[filename].
\* ok = FALSE when a save raised; the loop stops there.
RECURSIVE SaveFiles(_, _, _, _, _, _)
SaveFiles(w, food_path, fs, i, manifest, entry) ==
    IF i > Len(fs) THEN [w |-> w, files |-> fs, manifest |-> manifest, ok |-> TRUE]
    ELSE IF fs[i].filename = <<>>
         THEN SaveFiles(w, food_path, fs, i + 1, manifest, entry)
         ELSE LET r == save_uploaded_file_optimized(w, fs[i], food_path \o fs[i].filename)
                  fs1 == [fs EXCEPT ![i] = r.file]
              IN IF ~r.ok
                 THEN [w |-> r.w, files |-> fs1, manifest |-> manifest, ok |-> FALSE]
                 ELSE SaveFiles(r.w, food_path, fs1, i + 1,
                                DictSet(manifest, fs[i].filename, entry), entry)

\* POST /upload
upload_files(w, uid, year, month, fs, client_ip) ==
    LET food_path == FoodPath(uid)
        w1 == Mkdir(w, food_path)
        rd == read_manifest_optimized(w1, ManifestPath(uid))
        cu == get_cached_user(rd.w, uid)
        uploader_name == IF cu.user # NoUser THEN cu.user.unit_name
                         ELSE "UID " \o ToString(uid)
        entry == ManifestEntry(cu.w, year, month, uploader_name, client_ip)
        sv == SaveFiles(cu.w, food_path, fs, 1, rd.manifest, entry)
        wr == write_manifest_optimized(sv.w, ManifestPath(uid), sv.manifest)
    IN IF ~sv.ok THEN [w |-> sv.w, resp |-> HttpError(500)]
       ELSE IF ~wr.ok THEN [w |-> wr.w, resp |-> HttpError(500)]
       ELSE [w |-> wr.w, resp |-> Redirect(303, "/dashboard", uid)]

\* GET /delete-file
delete_file(w, uid, filename) ==
    LET w1 == delete_file_optimized(w, FoodPath(uid) \o filename)
        rd == read_manifest_optimized(w1, ManifestPath(uid))
    IN IF filename \in DOMAIN rd.manifest
       THEN LET wr == write_manifest_optimized(rd.w, ManifestPath(uid),
                                               DictDel(rd.manifest, filename))
            IN IF ~wr.ok THEN [w |-> wr.w, resp |-> HttpError(500)]
               ELSE [w |-> wr.w, resp |-> Redirect(303, "/dashboard", uid)]
       ELSE [w |-> rd.w, resp |-> Redirect(303, "/dashboard", uid)]

\* for filename in files: delete the file, pop the manifest key
RECURSIVE DeleteEach(_, _, _, _, _)
DeleteEach(w, folder, names, i, manifest) ==
    IF i > Len(names) THEN [w |-> w, manifest |-> manifest]
    ELSE DeleteEach(delete_file_optimized(w, folder \o names[i]), folder, names, i + 1,
                    DictDel(manifest, names[i]))

\* POST /delete-files
delete_files(w, uid, names) ==
    LET rd == read_manifest_optimized(w, ManifestPath(uid))
        dl == DeleteEach(rd.w, FoodPath(uid), names, 1, rd.manifest)
        wr == write_manifest_optimized(dl.w, ManifestPath(uid), dl.manifest)
    IN IF ~wr.ok THEN [w |-> wr.w, resp |-> HttpError(500)]
       ELSE [w |-> wr.w, resp |-> Redirect(303, "/dashboard", uid)]

\* GET /{uid}/food/{filename}: FileResponse raises when the path is no regular file
existence_check(w, file_path) ==
    IF file_path \in DOMAIN w.FILE_EXISTS_CACHE
    THEN [w |-> w, file_exists |-> w.FILE_EXISTS_CACHE[file_path]]
    ELSE LET e == PathExists(w, file_path) IN
         [w |-> [w EXCEPT !.FILE_EXISTS_CACHE = DictSet(@, file_path, e)],
          file_exists |-> e]

get_federal_file(w, uid, filename) ==
    LET file_path == FoodPath(uid) \o filename
        ck == existence_check(w, file_path)
    IN IF ck.file_exists
       THEN IF IsFile(ck.w, file_path)
            THEN [w |-> ck.w, resp |-> FileResponse(file_path)]
            ELSE [w |-> ck.w, resp |-> HttpError(500)]
       ELSE [w |-> ck.w, resp |-> HttpError(404)]

-----------------------------------------------------------------------------
(* Bulk upload *)

\* lines 425-430: the institutions a bulk upload of target_type by admin reaches
TargetSchools(w, admin, target_type) ==
    {i \in 1..Len(w.users) :
        /\ w.users[i].food_type = target_type
        /\ w.users[i].role = "user"
        /\ admin.role = "municipal_admin" => w.users[i].district = admin.district}

\* lines 439-465: for school in schools, with the same UploadFile objects each time
RECURSIVE BulkEach(_, _, _, _, _)
BulkEach(w, schools, k, fs, entry) ==
    IF k > Len(schools) THEN [w |-> w, ok |-> TRUE]
    ELSE LET food_path == FoodPath(schools[k])
             manifest_path == food_path \o <<"manifest.json">>
             w1 == Mkdir(w, food_path)
             rd == read_manifest_optimized(w1, manifest_path)
             sv == SaveFiles(rd.w, food_path, fs, 1, rd.manifest, entry)
             wr == write_manifest_optimized(sv.w, manifest_path, sv.manifest)
         IN IF ~sv.ok THEN [w |-> sv.w, ok |-> FALSE]
            ELSE IF ~wr.ok THEN [w |-> wr.w, ok |-> FALSE]
            ELSE BulkEach(wr.w, schools, k + 1, sv.files, entry)

\* POST /bulk-upload; order is the order in which query.all() returns the schools
bulk_upload(w, admin_id, target_type, year, month, fs, client_ip, order) ==
    LET cu == get_cached_user(w, admin_id) IN
    IF cu.user = NoUser THEN [w |-> cu.w, resp |-> Redirect(307, "/login", 0)]
    ELSE LET entry == ManifestEntry(cu.w, year, month, cu.user.unit_name, client_ip)
             be == BulkEach(cu.w, order, 1, fs, entry)
         IN IF ~be.ok THEN [w |-> be.w, resp |-> HttpError(500)]
            ELSE [w |-> be.w, resp |-> Redirect(303, "/admin", admin_id)]

-----------------------------------------------------------------------------
(* Federal listing *)

\* datetime.strptime(date_str, "%d.%m.%Y %H:%M"); ok = FALSE when it raises
Strptime(s) ==
    IF /\ Len(s) = 16
       /\ \A i \in {1, 2, 4, 5, 7, 8, 9, 10, 12, 13, 15, 16} : s[i] \in 48..57
       /\ s[3] = 46 /\ s[6] = 46 /\ s[11] = 32 /\ s[14] = 58
    THEN [ok |-> TRUE,
          dt |-> [year |-> 1000 * (s[7] - 48) + 100 * (s[8] - 48) + 10 * (s[9] - 48)
                           + (s[10] - 48),
                  month |-> 10 * (s[4] - 48) + (s[5] - 48),
                  day |-> 10 * (s[1] - 48) + (s[2] - 48),
                  hour |-> 10 * (s[12] - 48) + (s[13] - 48),
                  minute |-> 10 * (s[15] - 48) + (s[16] - 48)]]
    ELSE [ok |-> FALSE, dt |-> DateTimeOf(0)]

\* datetime.fromtimestamp(t) and datetime.now(), on a server whose zone is UTC
FromTimestamp(t) == DateTimeOf(StartMinute + t)

\* await run_in_threadpool(f.stat).st_mtime and .st_size: attribute access binds
\* tighter than await, so the attribute is looked up on the coroutine object
\* that run_in_threadpool(f.stat) returns, and the lookup raises AttributeError
\* before anything is awaited. ok = FALSE says the expression raised.
AwaitStatAttribute(w, p) ==
    [ok |-> FALSE, value |-> w.files[Resolve(w, p).at].mtime]

\* lines 202-218: the dict appended for the directory entry called name; the
\* try of lines 205-208 catches what strptime or the st_mtime expression raises,
\* nothing catches what the st_size expression raises
FederalFileInfo(w, base_path, manifest, name) ==
    LET has == <<name>> \in DOMAIN manifest
        date_str == IF has THEN manifest[<<name>>].upload_datetime ELSE <<>>
        parsed == Strptime(date_str)
        st_mtime == AwaitStatAttribute(w, base_path \o <<name>>)
        dt == IF date_str # <<>>
              THEN IF parsed.ok THEN parsed.dt ELSE FromTimestamp(w.clock)
              ELSE IF st_mtime.ok THEN FromTimestamp(st_mtime.value)
                   ELSE FromTimestamp(w.clock)
        assigned_year == IF has THEN manifest[<<name>>].assigned_year
                         ELSE Digits(dt.year, 4)
        assigned_month == IF has THEN manifest[<<name>>].assigned_month
                          ELSE Digits(dt.month, 2)
    IN [filename |-> name, date |-> Strftime(dt), year |-> assigned_year,
        month |-> MonthsGet(assigned_month),
        raised |-> ~AwaitStatAttribute(w, base_path \o <<name>>).ok]

\* sorted(keys, reverse=True) on strings
RECURSIVE SortedReverse(_)
SortedReverse(S) ==
    IF S = {} THEN <<>>
    ELSE LET mx == CHOOSE x \in S : \A y \in S : ~SeqLess(x, y)
         IN <<mx>> \o SortedReverse(S \ {mx})

\* sorted(infos, key=lambda x: x["date"], reverse=True): stable, so entries with
\* equal dates keep their order
RECURSIVE SortedByDateReverse(_)
SortedByDateReverse(infos) ==
    IF infos = <<>> THEN <<>>
    ELSE LET rest == SortedByDateReverse(SubSeq(infos, 1, Len(infos) - 1))
             x == infos[Len(infos)]
             before == {j \in 1..Len(rest) : ~SeqLess(rest[j].date, x.date)}
             k == IF before = {} THEN 0 ELSE CHOOSE j \in before : \A i \in before : i <= j
         IN SubSeq(rest, 1, k) \o <<x>> \o SubSeq(rest, k + 1, Len(rest))

\* generate_federal_html_stream: the year sections, their month sections and
\* their file lines, in the order they are streamed. order is the order in which
\* iterdir yields the directory's files. The page header is streamed before the
\* files are looked at; when building a file's dict raises, the stream ends
\* there, with no section sent (ok = FALSE).
generate_federal_html_stream(w, base_path, manifest, order) ==
    LET shown == SelectSeq(order, LAMBDA n : n # "manifest.json")
        infos == [i \in 1..Len(shown) |-> FederalFileInfo(w, base_path, manifest, shown[i])]
        raised == \E i \in 1..Len(infos) : infos[i].raised
        years == {infos[i].year : i \in 1..Len(infos)}
        monthsOf(y) == {infos[i].month : i \in {j \in 1..Len(infos) : infos[j].year = y}}
        filesOf(y, m) == SelectSeq(infos, LAMBDA x : x.year = y /\ x.month = m)
        monthSection(y, m) == [month |-> m, files |-> SortedByDateReverse(filesOf(y, m))]
        yearSection(y) ==
            LET ms == SortedReverse(monthsOf(y)) IN
            [year |-> y, months |-> [k \in 1..Len(ms) |-> monthSection(y, ms[k])]]
        ys == SortedReverse(years)
    IN IF raised THEN [ok |-> FALSE, sections |-> <<>>]
       ELSE [ok |-> TRUE, sections |-> [k \in 1..Len(ys) |-> yearSection(ys[k])]]

\* GET /{uid}/food/
federal_index(w, uid, order) ==
    LET base_path == FoodPath(uid) IN
    IF ~PathExists(w, base_path) THEN [w |-> w, resp |-> Html(<<>>)]
    ELSE LET rd == read_manifest_optimized(w, base_path \o <<"manifest.json">>)
             stream == generate_federal_html_stream(rd.w, base_path, rd.manifest, order)
         IN [w |-> rd.w,
             resp |-> IF stream.ok THEN Html(stream.sections)
                      ELSE StreamAborted(stream.sections)]

\* the orders in which iterdir may yield a set of names
Orders(S) == {o \in [1..Cardinality(S) -> S] : \A i, j \in DOMAIN o : i # j => o[i] # o[j]}

-----------------------------------------------------------------------------
(* Request inputs *)

Emails == {"a@mail", "b@mail", "c@mail"}
Passwords == {"pw1", "pw2"}
SecretCodes == {None, REGIONAL_CODE, MUNICIPAL_CODE, "alu1212993x"}
Districts == {"Grozny", "Argun"}
FoodTypes == {"Obedy", "Internaty"}

\* form values of year and month
Years == {Digits(2024, 4), Digits(2025, 4)}
Periods == {[year |-> Digits(2024, 4), month |-> Digits(12, 2)],
            [year |-> Digits(2025, 4), month |-> Digits(1, 2)]}

\* institution ids a request may name: a registered one and one that never registered
Uids == {1, 2}

\* filenames: a plain name, the sidecar's own name, and the empty name
PlainNames == {<<"a.pdf">>}
SidecarName == <<"manifest.json">>
EmptyName == <<>>

\* bytes a client may submit
Contents == {<<7>>}

\* request.client.host
ClientIps == {"10.0.0.9"}

\* the file lists a multipart request may carry
MaxFiles == 2
FileLists(names) ==
    UNION {[1..n -> {UploadFile(f, c) : f \in names, c \in Contents}] : n \in 1..MaxFiles}
NameLists(names) == UNION {[1..n -> names] : n \in 1..MaxFiles}

NoRequest == [op |-> "none"]

-----------------------------------------------------------------------------
(* Initial state: empty database, empty BASE_DIR, empty caches *)

\* no coroutine is suspended, nobody holds the lock, no object is followed
LoopIdle ==
    /\ tasks = <<>>
    /\ CACHE_LOCK = 0
    /\ heap = <<>>

EmptyWorld ==
    [users |-> <<>>, dirs |-> {BASE_DIR}, files |-> EmptyDict,
     MANIFEST_CACHE |-> EmptyDict, USER_CACHE |-> EmptyDict,
     FILE_EXISTS_CACHE |-> EmptyDict, clock |-> 0]

Init ==
    /\ WorldIs(EmptyWorld)
    /\ req = NoRequest
    /\ LoopIdle
    /\ resp = NoResponse

-----------------------------------------------------------------------------
(* Actions: authentication *)

Register(email, password, unit_name, district, food_type, secret_code) ==
    /\ UsersByEmail(World, email) = {} => Len(users) < MaxUsers
    /\ LET r == register(World, email, password, unit_name, district, food_type,
                         secret_code) IN
       /\ SetWorld(r.w)
       /\ resp' = r.resp
    /\ UNCHANGED loop
    /\ req' = [op |-> "register", email |-> email, password |-> password,
               secret_code |-> secret_code]

Login(email, password) ==
    /\ LET r == login(World, email, password) IN
       /\ SetWorld(r.w)
       /\ resp' = r.resp
    /\ UNCHANGED loop
    /\ req' = [op |-> "login", email |-> email, password |-> password]

RegisterAny ==
    \E e \in Emails, p \in Passwords, c \in SecretCodes :
        Register(e, p, "School", "Grozny", "Obedy", c)

LoginAny == \E e \in Emails, p \in Passwords : Login(e, p)

NextAuth == RegisterAny \/ LoginAny

SpecAuth == Init /\ [][NextAuth]_vars

-----------------------------------------------------------------------------
(* Actions: the file store of one institution *)

Upload(uid, year, month, fs, client_ip) ==
    /\ LET r == upload_files(World, uid, year, month, fs, client_ip) IN
       /\ SetWorld(r.w)
       /\ resp' = r.resp
    /\ UNCHANGED loop
    /\ req' = [op |-> "upload", uid |-> uid, year |-> year, month |-> month,
               names |-> [i \in DOMAIN fs |-> fs[i].filename]]

DeleteFile(uid, filename) ==
    /\ LET r == delete_file(World, uid, filename) IN
       /\ SetWorld(r.w)
       /\ resp' = r.resp
    /\ UNCHANGED loop
    /\ req' = [op |-> "delete-file", uid |-> uid, names |-> <<filename>>]

DeleteFiles(uid, names) ==
    /\ LET r == delete_files(World, uid, names) IN
       /\ SetWorld(r.w)
       /\ resp' = r.resp
    /\ UNCHANGED loop
    /\ req' = [op |-> "delete-files", uid |-> uid, names |-> names]

\* the route's {filename} is one path segment
GetFederalFile(uid, filename) ==
    /\ LET r == get_federal_file(World, uid, filename) IN
       /\ SetWorld(r.w)
       /\ resp' = r.resp
    /\ UNCHANGED loop
    /\ req' = [op |-> "get-file", uid |-> uid, names |-> <<filename>>]

\* a minute passes
Tick ==
    /\ clock < MaxClock
    /\ clock' = clock + 1
    /\ UNCHANGED <<users, dirs, files, MANIFEST_CACHE, USER_CACHE, FILE_EXISTS_CACHE>>
    /\ UNCHANGED loop
    /\ req' = [op |-> "tick"]
    /\ resp' = NoResponse

\* TTLCache: an entry's time-to-live runs out (or it is evicted) between requests
ExpireManifest(key) ==
    /\ key \in DOMAIN MANIFEST_CACHE
    /\ MANIFEST_CACHE' = DictDel(MANIFEST_CACHE, key)
    /\ UNCHANGED <<users, dirs, files, USER_CACHE, FILE_EXISTS_CACHE, clock>>
    /\ UNCHANGED loop
    /\ req' = [op |-> "expire"]
    /\ resp' = NoResponse

ExpireUser(key) ==
    /\ key \in DOMAIN USER_CACHE
    /\ USER_CACHE' = DictDel(USER_CACHE, key)
    /\ UNCHANGED <<users, dirs, files, MANIFEST_CACHE, FILE_EXISTS_CACHE, clock>>
    /\ UNCHANGED loop
    /\ req' = [op |-> "expire"]
    /\ resp' = NoResponse

ExpireFileExists(key) ==
    /\ key \in DOMAIN FILE_EXISTS_CACHE
    /\ FILE_EXISTS_CACHE' = DictDel(FILE_EXISTS_CACHE, key)
    /\ UNCHANGED <<users, dirs, files, MANIFEST_CACHE, USER_CACHE, clock>>
    /\ UNCHANGED loop
    /\ req' = [op |-> "expire"]
    /\ resp' = NoResponse

ExpireManifestAny == \E k \in DOMAIN MANIFEST_CACHE : ExpireManifest(k)
ExpireUserAny == \E k \in DOMAIN USER_CACHE : ExpireUser(k)
ExpireFileExistsAny == \E k \in DOMAIN FILE_EXISTS_CACHE : ExpireFileExists(k)

\* the state after one institution has registered
StoreWorld == register(EmptyWorld, "a@mail", "pw1", "School", "Grozny", "Obedy", None).w

InitStore ==
    /\ WorldIs(StoreWorld)
    /\ req = NoRequest
    /\ LoopIdle
    /\ resp = NoResponse

StoreNames == PlainNames \cup {SidecarName}

\* SpecStore: deletes, uploads and file serving on a registered institution (1)
\* and on an id that never registered and has no directory (2)
StoreUpload ==
    \E u \in Uids, f \in StoreNames, c \in Contents, ip \in ClientIps :
        Upload(u, Digits(2025, 4), Digits(12, 2), <<UploadFile(f, c)>>, ip)

StoreDeleteFile == \E u \in Uids, f \in StoreNames : DeleteFile(u, f)

StoreDeleteFiles == \E u \in Uids, f \in StoreNames : DeleteFiles(u, <<f>>)

StoreGetFile == \E u \in Uids, f \in StoreNames : GetFederalFile(u, f)

NextStore ==
    \/ StoreUpload
    \/ StoreDeleteFile
    \/ StoreDeleteFiles
    \/ StoreGetFile
    \/ ExpireManifestAny
    \/ ExpireFileExistsAny

SpecStore == InitStore /\ [][NextStore]_vars

\* SpecUpload: uploads to one institution over time, between deletes
UploadUpload ==
    \E p \in Periods, fs \in FileLists(StoreNames \cup {EmptyName}), ip \in ClientIps :
        Upload(1, p.year, p.month, fs, ip)

UploadDeleteFile == \E f \in StoreNames : DeleteFile(1, f)

UploadDeleteFiles == \E ns \in NameLists(StoreNames) : DeleteFiles(1, ns)

NextUpload ==
    \/ UploadUpload
    \/ UploadDeleteFile
    \/ UploadDeleteFiles
    \/ Tick
    \/ ExpireManifestAny

SpecUpload == InitStore /\ [][NextUpload]_vars

-----------------------------------------------------------------------------
(* SpecManifest: read_manifest and write_manifest called on their own, as the *)
(* handlers call them, with cache entries expiring in between.                *)

\* the value a call returned: the dict and the filesystem reads it made
Returned(value, fs_reads) == Response("return", 0, "", fs_reads, value)
Raised == Response("raise", 0, "", 0, <<>>)

WriteManifestCall(path, manifest) ==
    /\ LET r == write_manifest_optimized(World, path, manifest) IN
       /\ SetWorld(r.w)
       /\ resp' = IF r.ok THEN Returned(<<>>, 0) ELSE Raised
    /\ UNCHANGED loop
    /\ req' = [op |-> "write_manifest", path |-> path, manifest |-> manifest]

ReadManifestCall(path) ==
    /\ LET r == read_manifest_optimized(World, path) IN
       /\ SetWorld(r.w)
       /\ resp' = Returned(r.manifest, r.fs_reads)
    /\ UNCHANGED loop
    /\ req' = [op |-> "read_manifest", path |-> path]

\* manifests a caller may pass
SampleEntry(year) ==
    ManifestEntry(StoreWorld, year, Digits(12, 2), "School", "10.0.0.9")

SampleManifests ==
    {EmptyDict} \cup {(<<"a.pdf">> :> SampleEntry(y)) : y \in Years}
    \cup {(<<"a.pdf">> :> SampleEntry(Digits(2024, 4)))
            @@ (SidecarName :> SampleEntry(Digits(2025, 4)))}

ManifestWrite == \E u \in Uids, m \in SampleManifests : WriteManifestCall(ManifestPath(u), m)

ManifestRead == \E u \in Uids : ReadManifestCall(ManifestPath(u))

NextManifest == ManifestWrite \/ ManifestRead \/ ExpireManifestAny

SpecManifest == InitStore /\ [][NextManifest]_vars

-----------------------------------------------------------------------------
(* SpecListing: uploads into several periods and the federal listing of them *)

FederalIndex(uid, order) ==
    /\ order \in Orders(list_directory_files_optimized(World, FoodPath(uid)))
    /\ LET r == federal_index(World, uid, order) IN
       /\ SetWorld(r.w)
       /\ resp' = r.resp
    /\ UNCHANGED loop
    /\ req' = [op |-> "federal-index", uid |-> uid]

ListingNames == {<<"a.pdf">>, <<"b.pdf">>}
ListingMonths == {Digits(1, 2), Digits(4, 2), Digits(12, 2)}

ListingUpload ==
    \E y \in Years, m \in ListingMonths, f \in ListingNames, c \in Contents,
       ip \in ClientIps :
        Upload(1, y, m, <<UploadFile(f, c)>>, ip)

ListingFederalIndex ==
    \E u \in Uids :
        \E o \in Orders(list_directory_files_optimized(World, FoodPath(u))) :
            FederalIndex(u, o)

NextListing == ListingUpload \/ ListingFederalIndex

SpecListing == InitStore /\ [][NextListing]_vars

-----------------------------------------------------------------------------
(* SpecBulk: an admin (1) and two institutions (2, 3) have registered; bulk   *)
(* uploads by the admin and by an unknown id.                                 *)

BulkUpload(admin_id, target_type, year, month, fs, client_ip, order) ==
    /\ order \in Orders(TargetSchools(World, get_cached_user(World, admin_id).user,
                                      target_type))
    /\ LET r == bulk_upload(World, admin_id, target_type, year, month, fs, client_ip,
                            order) IN
       /\ SetWorld(r.w)
       /\ resp' = r.resp
    /\ UNCHANGED loop
    /\ req' = [op |-> "bulk-upload", admin_id |-> admin_id, target_type |-> target_type,
               year |-> year, month |-> month,
               files |-> [i \in DOMAIN fs |-> [filename |-> fs[i].filename,
                                               content |-> fs[i].content]]]

BulkWorld(code, district, food_type) ==
    LET w1 == register(EmptyWorld, "a@mail", "pw1", "Admin", "Grozny", "Obedy", code).w
        w2 == register(w1, "b@mail", "pw1", "School", "Grozny", "Obedy", None).w
    IN register(w2, "c@mail", "pw1", "Lyceum", district, food_type, None).w

InitBulk ==
    /\ \E code \in {REGIONAL_CODE, MUNICIPAL_CODE}, d \in Districts, t \in FoodTypes :
          WorldIs(BulkWorld(code, d, t))
    /\ req = NoRequest
    /\ LoopIdle
    /\ resp = NoResponse

\* "../../3/food/a.pdf"
ClimbingName == <<"..", "..", "3", "food", "a.pdf">>
BulkNames == PlainNames \cup {ClimbingName}
BulkAdminIds == {1, 4}

BulkUploadAny ==
    \E a \in BulkAdminIds, t \in FoodTypes, fs \in FileLists(BulkNames),
       ip \in ClientIps :
        \E o \in Orders(TargetSchools(World, get_cached_user(World, a).user, t)) :
            BulkUpload(a, t, Digits(2025, 4), Digits(12, 2), fs, ip, o)

NextBulk == BulkUploadAny \/ ExpireUserAny

SpecBulk == InitBulk /\ [][NextBulk]_vars

-----------------------------------------------------------------------------
(* SpecTraversal: institutions 2 and 3 upload and delete, under plain names  *)
(* and under a name that climbs out of the food directory                    *)

TraversalUids == {2, 3}
TraversalNames == PlainNames \cup {ClimbingName}

TraversalUpload ==
    \E u \in TraversalUids, f \in TraversalNames, c \in Contents, ip \in ClientIps :
        Upload(u, Digits(2025, 4), Digits(12, 2), <<UploadFile(f, c)>>, ip)

TraversalDeleteFile == \E u \in TraversalUids, f \in TraversalNames : DeleteFile(u, f)

TraversalDeleteFiles == \E u \in TraversalUids, f \in TraversalNames : DeleteFiles(u, <<f>>)

InitTraversal ==
    /\ WorldIs(BulkWorld(REGIONAL_CODE, "Grozny", "Obedy"))
    /\ req = NoRequest
    /\ LoopIdle
    /\ resp = NoResponse

NextTraversal ==
    \/ TraversalUpload
    \/ TraversalDeleteFile
    \/ TraversalDeleteFiles
    \/ ExpireManifestAny

SpecTraversal == InitTraversal /\ [][NextTraversal]_vars

-----------------------------------------------------------------------------
(* The event loop: requests as coroutines that interleave at their awaits *)

\* requests the loop runs at once
MaxTasks == 2
Tasks == 1..MaxTasks

\* the length of the filename a component sequence spells ("/" between components)
RECURSIVE NameLen(_)
NameLen(f) ==
    IF f = <<>> THEN 0
    ELSE Len(Head(f)) + (IF Len(f) > 1 THEN 1 ELSE 0) + NameLen(Tail(f))

\* the length of one manifest entry in json.dumps(manifest, ensure_ascii=False,
\* indent=2): 136 characters of keys, quotes and indentation around the values
EntryLen(name, e) ==
    136 + NameLen(name) + Len(e.assigned_year) + Len(e.assigned_month)
        + Len(e.uploader_name) + Len(e.uploader_ip) + Len(e.upload_datetime)

RECURSIVE EntriesLen(_, _)
EntriesLen(d, keys) ==
    IF keys = {} THEN 0
    ELSE LET k == CHOOSE x \in keys : TRUE IN
         EntryLen(k, d[k]) + EntriesLen(d, keys \ {k})

\* len(json.dumps(manifest, ensure_ascii=False, indent=2))
JsonLen(d) ==
    IF DOMAIN d = {} THEN 2
    ELSE 4 + EntriesLen(d, DOMAIN d) + 2 * (Cardinality(DOMAIN d) - 1)

\* the length of a file's content
ContentLen(c) == IF c.kind = "bytes" THEN Len(c.bytes) ELSE JsonLen(c.doc)

\* aiofiles.open(path, "w"): the file is created or truncated at once
OpenTruncate(w, p) == WriteFile(w, p, Bytes(<<>>))

\* f.write(text) and the close that ends "async with": the buffered text goes to
\* the file at offset 0. When another writer's longer text reached the file
\* after this writer's open, its tail stays behind this text, and the file is
\* no JSON document (kind "torn"; doc is the document whose tail remains).
\* A file unlinked since the open stays absent.
Flush(w, p, manifest) ==
    IF ~IsFile(w, p) THEN w
    ELSE LET cur == w.files[Resolve(w, p).at] IN
         IF ContentLen(cur) <= JsonLen(manifest)
         THEN WriteFile(w, p, JsonDumps(manifest))
         ELSE WriteFile(w, p, [kind |-> "torn", bytes |-> <<>>, doc |-> cur.doc,
                               mtime |-> 0])

\* asyncio.Lock: acquire returns at once when the lock is not held
LockAlwaysFree(lock) == TRUE

LockFree(lock) == lock = 0

\* the exit of "async with CACHE_LOCK", normal or by exception
LockKept(lock) == lock

LockReleased(lock) == 0

\* a coroutine's frame: the handler, where it is suspended, its arguments and
\* locals, whether it ever had to wait for the lock, whether another request
\* was in flight while it ran, the position of its manifest write among all
\* manifest writes, and its response once it is done
IdleFrame ==
    [op |-> "idle", pc |-> "idle", uid |-> 0, filename |-> <<>>,
     year |-> <<>>, month |-> <<>>, manifest |-> EmptyDict, uploader |-> "",
     file_exists |-> FALSE, waited |-> FALSE, overlapped |-> FALSE, landed |-> 0,
     resp |-> NoResponse]

\* where the handlers suspend
AcquirePcs == {"rm_lock", "user_lock", "save_cache", "unlink_cache", "wm_cache",
               "gf_lock"}
HoldingPcs == {"rm_disk", "rm_store", "user_db", "gf_exists", "gf_store"}

Finish(f, response) == [f EXCEPT !.pc = "done", !.resp = response]

\* what get_federal_file answers once it knows file_exists (lines 295-302)
ServeFile(w, f, file_path, file_exists) ==
    Finish(f, IF file_exists
              THEN IF IsFile(w, file_path) THEN FileResponse(file_path)
                   ELSE HttpError(500)
              ELSE HttpError(404))

\* the statement after "manifest = await read_manifest_optimized(manifest_path)"
AfterReadManifest(f, manifest) ==
    IF f.op = "upload" THEN [f EXCEPT !.manifest = manifest, !.pc = "user_lock"]
    ELSE IF f.filename \in DOMAIN manifest
         THEN [f EXCEPT !.manifest = DictDel(manifest, f.filename), !.pc = "wm_open"]
         ELSE Finish([f EXCEPT !.manifest = manifest],
                     Redirect(303, "/dashboard", f.uid))

\* One step of task t: from where its frame f is suspended to its next await.
\* Returns the world, the lock and the frame after the step, and whether the
\* step read or wrote a cache (cache) and held the lock while it did (held).
\* nth is the number this step's manifest write gets if it makes one.
TaskStep(w, lock, f, t, nth) ==
    LET food_path == FoodPath(f.uid)
        manifest_path == ManifestPath(f.uid)
        dest_path == food_path \o f.filename
        out(w1, lock1, f1, cache, held) ==
            [w |-> w1, lock |-> lock1, f |-> f1, cache |-> cache, held |-> held]
    IN
    CASE f.pc = "mkdir" ->
            out(Mkdir(w, food_path), lock, [f EXCEPT !.pc = "rm_lock"], FALSE, FALSE)
      [] f.pc = "unlink" ->
            IF IsFile(w, dest_path)
            THEN out(Unlink(w, dest_path), lock, [f EXCEPT !.pc = "unlink_cache"],
                     FALSE, FALSE)
            ELSE out(w, lock, [f EXCEPT !.pc = "rm_lock"], FALSE, FALSE)
      [] f.pc = "unlink_cache" ->
            out([w EXCEPT !.FILE_EXISTS_CACHE = DictDel(@, dest_path)],
                LockReleased(t), [f EXCEPT !.pc = "rm_lock"], TRUE, TRUE)
      [] f.pc = "rm_lock" ->
            IF manifest_path \in DOMAIN w.MANIFEST_CACHE
            THEN out(w, LockReleased(t),
                     AfterReadManifest(f, w.MANIFEST_CACHE[manifest_path]), TRUE, TRUE)
            ELSE out(w, t, [f EXCEPT !.pc = "rm_disk"], TRUE, TRUE)
      [] f.pc = "rm_disk" ->
            out(w, lock,
                [f EXCEPT !.pc = "rm_store",
                          !.manifest = IF IsFile(w, manifest_path)
                                       THEN JsonLoadsOrEmpty(
                                                w.files[Resolve(w, manifest_path).at])
                                       ELSE EmptyDict],
                FALSE, lock = t)
      [] f.pc = "rm_store" ->
            out([w EXCEPT !.MANIFEST_CACHE = DictSet(@, manifest_path, f.manifest)],
                LockReleased(lock), AfterReadManifest(f, f.manifest), TRUE, lock = t)
      [] f.pc = "user_lock" ->
            IF f.uid \in DOMAIN w.USER_CACHE
            THEN out(w, LockReleased(t),
                     [f EXCEPT !.pc = "save",
                               !.uploader = w.USER_CACHE[f.uid].unit_name],
                     TRUE, TRUE)
            ELSE out(w, t, [f EXCEPT !.pc = "user_db"], TRUE, TRUE)
      [] f.pc = "user_db" ->
            LET user == UserById(w, f.uid) IN
            out(IF user # NoUser
                THEN [w EXCEPT !.USER_CACHE = DictSet(@, f.uid, user)] ELSE w,
                LockReleased(lock),
                [f EXCEPT !.pc = "save",
                          !.uploader = IF user # NoUser THEN user.unit_name
                                       ELSE "UID " \o ToString(f.uid)],
                user # NoUser, lock = t)
      [] f.pc = "save" ->
            IF ~CanOpenForWrite(w, dest_path)
            THEN out(w, lock, Finish(f, HttpError(500)), FALSE, FALSE)
            ELSE out(WriteFile(w, dest_path, Bytes(<<7>>)), lock,
                     [f EXCEPT !.pc = "save_cache"], FALSE, FALSE)
      [] f.pc = "save_cache" ->
            out([w EXCEPT !.FILE_EXISTS_CACHE = DictSet(@, dest_path, TRUE)],
                LockReleased(t),
                [f EXCEPT !.pc = "wm_open",
                          !.manifest = DictSet(@, f.filename,
                                               ManifestEntry(w, f.year, f.month,
                                                             f.uploader, "10.0.0.9"))],
                TRUE, TRUE)
      [] f.pc = "wm_open" ->
            IF ~CanOpenForWrite(w, manifest_path)
            THEN out(w, lock, Finish(f, HttpError(500)), FALSE, FALSE)
            ELSE out(OpenTruncate(w, manifest_path), lock,
                     [f EXCEPT !.pc = "wm_flush"], FALSE, FALSE)
      [] f.pc = "wm_flush" ->
            out(Flush(w, manifest_path, f.manifest), lock,
                [f EXCEPT !.pc = "wm_cache", !.landed = nth], FALSE, FALSE)
      [] f.pc = "wm_cache" ->
            out([w EXCEPT !.MANIFEST_CACHE = DictSet(@, manifest_path, f.manifest)],
                LockReleased(t),
                Finish(f, Redirect(303, "/dashboard", f.uid)), TRUE, TRUE)
      [] f.pc = "gf_lock" ->
            IF dest_path \in DOMAIN w.FILE_EXISTS_CACHE
            THEN out(w, LockReleased(t),
                     ServeFile(w, f, dest_path, w.FILE_EXISTS_CACHE[dest_path]),
                     TRUE, TRUE)
            ELSE out(w, t, [f EXCEPT !.pc = "gf_exists"], TRUE, TRUE)
      [] f.pc = "gf_exists" ->
            out(w, lock,
                [f EXCEPT !.pc = "gf_store", !.file_exists = PathExists(w, dest_path)],
                FALSE, lock = t)
      [] f.pc = "gf_store" ->
            out([w EXCEPT !.FILE_EXISTS_CACHE = DictSet(@, dest_path, f.file_exists)],
                LockReleased(lock), ServeFile(w, f, dest_path, f.file_exists),
                TRUE, lock = t)

\* the frame of a request that has just been accepted
UploadFrame(uid, year, month, filename) ==
    [IdleFrame EXCEPT !.op = "upload", !.pc = "mkdir", !.uid = uid,
                      !.filename = filename, !.year = year, !.month = month]

DeleteFileFrame(uid, filename) ==
    [IdleFrame EXCEPT !.op = "delete-file", !.pc = "unlink", !.uid = uid,
                      !.filename = filename]

GetFileFrame(uid, filename) ==
    [IdleFrame EXCEPT !.op = "get-file", !.pc = "gf_lock", !.uid = uid,
                      !.filename = filename]

InFlight(f) == f.pc \notin {"idle", "done"}

\* the manifest writes that have reached the file so far
Landings == Cardinality({t \in DOMAIN tasks : tasks[t].landed > 0})

Sequential == UNCHANGED <<users, dirs, files, MANIFEST_CACHE, USER_CACHE,
                          FILE_EXISTS_CACHE, clock, heap>>

\* the server accepts a request: a new coroutine
Start(t, f) ==
    /\ req.op # "shutdown"
    /\ tasks[t].pc = "idle"
    /\ tasks' = [u \in DOMAIN tasks |->
                    IF u = t
                    THEN [f EXCEPT !.overlapped = \E v \in DOMAIN tasks : InFlight(tasks[v])]
                    ELSE IF InFlight(tasks[u]) THEN [tasks[u] EXCEPT !.overlapped = TRUE]
                    ELSE tasks[u]]
    /\ req' = [op |-> "start", task |-> t, pc |-> "idle", cache |-> FALSE,
               held |-> FALSE]
    /\ resp' = NoResponse
    /\ UNCHANGED CACHE_LOCK
    /\ Sequential

\* the loop resumes task t, which runs to its next await; a task that needs the
\* lock while another holds it is not resumed
Resume(t) ==
    /\ InFlight(tasks[t])
    /\ tasks[t].pc \in AcquirePcs => LockFree(CACHE_LOCK)
    /\ LET r == TaskStep(World, CACHE_LOCK, tasks[t], t, Landings + 1) IN
       /\ SetWorld(r.w)
       /\ CACHE_LOCK' = r.lock
       /\ tasks' = [tasks EXCEPT ![t] = r.f]
       /\ req' = [op |-> tasks[t].op, task |-> t, pc |-> tasks[t].pc,
                  cache |-> r.cache, held |-> r.held]
       /\ resp' = r.f.resp
    /\ UNCHANGED heap

\* task t finds the lock held and joins its waiters
Wait(t) ==
    /\ InFlight(tasks[t])
    /\ tasks[t].pc \in AcquirePcs
    /\ ~LockFree(CACHE_LOCK)
    /\ ~tasks[t].waited
    /\ tasks' = [tasks EXCEPT ![t].waited = TRUE]
    /\ req' = [op |-> tasks[t].op, task |-> t, pc |-> "wait", cache |-> FALSE,
               held |-> FALSE]
    /\ resp' = NoResponse
    /\ UNCHANGED CACHE_LOCK
    /\ Sequential

\* GET /health: the handler has no await and takes no lock
health_check(w) ==
    [timestamp |-> get_msk_time(w),
     manifest_cache |-> Cardinality(DOMAIN w.MANIFEST_CACHE),
     user_cache |-> Cardinality(DOMAIN w.USER_CACHE),
     file_exists_cache |-> Cardinality(DOMAIN w.FILE_EXISTS_CACHE)]

Health ==
    /\ req.op \notin {"health", "shutdown"}
    /\ req' = [op |-> "health", task |-> 0, pc |-> "health", cache |-> TRUE,
               held |-> FALSE]
    /\ resp' = Response("json", 200, "", 0, health_check(World))
    /\ UNCHANGED <<tasks, CACHE_LOCK>>
    /\ Sequential

\* lifespan, after the yield: the server stops once no request is in flight,
\* and the caches are cleared with no lock taken
Shutdown ==
    /\ req.op # "shutdown"
    /\ \A t \in DOMAIN tasks : ~InFlight(tasks[t])
    /\ MANIFEST_CACHE' = EmptyDict
    /\ USER_CACHE' = EmptyDict
    /\ FILE_EXISTS_CACHE' = EmptyDict
    /\ req' = [op |-> "shutdown", task |-> 0, pc |-> "shutdown", cache |-> TRUE,
               held |-> FALSE]
    /\ resp' = NoResponse
    /\ UNCHANGED <<users, dirs, files, clock, tasks, CACHE_LOCK, heap>>

\* filenames whose manifests differ in length
RaceNames == {<<"a.pdf">>, <<"bb.pdf">>}

RaceStart ==
    \E t \in Tasks, f \in RaceNames :
        \/ Start(t, UploadFrame(1, Digits(2025, 4), Digits(12, 2), f))
        \/ Start(t, DeleteFileFrame(1, f))

RaceResume == \E t \in Tasks : Resume(t)

RaceWait == \E t \in Tasks : Wait(t)

\* institution 1 is registered; it holds nothing, or a.pdf uploaded earlier
RaceWorlds ==
    {StoreWorld,
     upload_files(StoreWorld, 1, Digits(2025, 4), Digits(12, 2),
                  <<UploadFile(<<"a.pdf">>, <<7>>)>>, "10.0.0.9").w}

InitRace ==
    /\ \E w \in RaceWorlds : WorldIs(w)
    /\ tasks = [t \in Tasks |-> IdleFrame]
    /\ CACHE_LOCK = 0
    /\ heap = <<>>
    /\ req = NoRequest
    /\ resp = NoResponse

RaceExpire == req.op # "shutdown" /\ ExpireManifestAny

NextRace == RaceStart \/ RaceResume \/ RaceWait \/ Health \/ Shutdown \/ RaceExpire

SpecRace == InitRace /\ [][NextRace]_vars

\* SpecLock: overlapping uploads, deletes and downloads of one file by a
\* registered institution, each coroutine resumed whenever it can run. A task
\* waiting for the lock can run once the lock is free; the requests are
\* finitely many, so weak fairness of each task's resumption is what the
\* loop's FIFO ready queue and the lock's FIFO waiters give.
\* requests are numbered in the order the server accepts them
LockStart ==
    \E t \in Tasks :
        /\ \A u \in 1..(t - 1) : tasks[u].pc # "idle"
        /\ \/ Start(t, UploadFrame(1, Digits(2025, 4), Digits(12, 2), <<"a.pdf">>))
           \/ Start(t, DeleteFileFrame(1, <<"a.pdf">>))
           \/ Start(t, GetFileFrame(1, <<"a.pdf">>))

InitLock ==
    /\ WorldIs(StoreWorld)
    /\ tasks = [t \in Tasks |-> IdleFrame]
    /\ CACHE_LOCK = 0
    /\ heap = <<>>
    /\ req = NoRequest
    /\ resp = NoResponse

NextLock == LockStart \/ RaceResume \/ RaceWait

SpecLock == InitLock /\ [][NextLock]_vars /\ \A t \in Tasks : WF_vars(Resume(t))

-----------------------------------------------------------------------------
(* SpecRegisterRace: POST /register requests that overlap *)

\* the users table's unique index on email refuses the commit of a second row
\* with an email it already holds (IntegrityError)
UniqueIndexRefuses(w, email) == UsersByEmail(w, email) # {}

RegisterFrame(email, password, unit_name, district, food_type, secret_code) ==
    [op |-> "register", pc |-> "reg_query", email |-> email, password |-> password,
     unit_name |-> unit_name, district |-> district, food_type |-> food_type,
     secret_code |-> secret_code, id |-> 0, resp |-> NoResponse]

\* One step of a register coroutine, from one await to the next: the query for
\* existing_user; db.add and db.commit; db.refresh and the mkdir. Nothing
\* catches what the commit raises.
RegisterStep(w, f) ==
    CASE f.pc = "reg_query" ->
            IF EmailTaken(w, f.email)
            THEN [w |-> w, f |-> Finish(f, PlainText("user exists"))]
            ELSE [w |-> w, f |-> [f EXCEPT !.pc = "reg_commit"]]
      [] f.pc = "reg_commit" ->
            IF UniqueIndexRefuses(w, f.email)
            THEN [w |-> w, f |-> Finish(f, HttpError(500))]
            ELSE LET id == Len(w.users) + 1
                     new_user == NewUser(id, f.email, f.password, f.unit_name,
                                         f.district, f.food_type,
                                         RoleForCode(f.secret_code))
                 IN [w |-> [w EXCEPT !.users = Append(@, new_user)],
                     f |-> [f EXCEPT !.pc = "reg_mkdir", !.id = id]]
      [] f.pc = "reg_mkdir" ->
            [w |-> Mkdir(w, FoodPath(f.id)),
             f |-> Finish(f, Redirect(303, "/login", 0))]

RegisterStart(t, f) ==
    /\ tasks[t].pc = "idle"
    /\ tasks' = [tasks EXCEPT ![t] = f]
    /\ req' = [op |-> "start", task |-> t, pc |-> "idle"]
    /\ resp' = NoResponse
    /\ UNCHANGED CACHE_LOCK
    /\ Sequential

RegisterResume(t) ==
    /\ tasks[t].op = "register"
    /\ InFlight(tasks[t])
    /\ LET r == RegisterStep(World, tasks[t]) IN
       /\ SetWorld(r.w)
       /\ tasks' = [tasks EXCEPT ![t] = r.f]
       /\ resp' = r.f.resp
    /\ req' = [op |-> "register", task |-> t, pc |-> tasks[t].pc]
    /\ UNCHANGED <<CACHE_LOCK, heap>>

RegisterRaceStart ==
    \E t \in Tasks, e \in Emails, p \in Passwords, c \in {None, MUNICIPAL_CODE} :
        RegisterStart(t, RegisterFrame(e, p, "School", "Grozny", "Obedy", c))

RegisterRaceResume == \E t \in Tasks : RegisterResume(t)

InitRegisterRace ==
    /\ WorldIs(EmptyWorld)
    /\ tasks = [t \in Tasks |-> IdleFrame]
    /\ CACHE_LOCK = 0
    /\ heap = <<>>
    /\ req = NoRequest
    /\ resp = NoResponse

NextRegisterRace == RegisterRaceStart \/ RegisterRaceResume

SpecRegisterRace == InitRegisterRace /\ [][NextRegisterRace]_vars

-----------------------------------------------------------------------------
(* SpecPages: the pages that present an institution's files (dashboard,      *)
(* federal listing) and the admin pages, asked for by known and unknown ids  *)

\* templates.TemplateResponse(name, context)
TemplateResponse(name, context) == Response("template", 200, name, 0, context)

\* the distinct values of s in the order they first occur: the key order of a
\* dict filled with setdefault
RECURSIVE FirstSeen(_)
FirstSeen(s) ==
    IF s = <<>> THEN <<>>
    ELSE LET r == FirstSeen(SubSeq(s, 1, Len(s) - 1))
             x == s[Len(s)]
         IN IF \E i \in DOMAIN r : r[i] = x THEN r ELSE Append(r, x)

DashboardShownAll(order) == order

\* lines 495-496: the sidecar is skipped
DashboardShown(order) == SelectSeq(order, LAMBDA n : n # "manifest.json")

\* lines 498-513: the dict appended for the directory entry called name, and
\* the keys it is filed under
DashboardFileInfo(w, user, manifest, name) ==
    LET has == <<name>> \in DOMAIN manifest
        file_meta == IF has THEN manifest[<<name>>] ELSE EmptyDict
        get(field, default) == IF has THEN file_meta[field] ELSE default
        assigned_month == get("assigned_month", Digits(1, 2))
    IN [filename |-> name,
        date |-> get("upload_datetime", Strftime(get_msk_time(w))),
        uploader |-> get("uploader_name", user.unit_name),
        ip |-> get("uploader_ip", "-"),        \* the source's dash
        year |-> get("assigned_year", Digits(2025, 4)),
        month |-> MonthsGet(assigned_month)]

\* grouped_files: years, their months and their files, each in insertion order
GroupedFiles(infos) ==
    LET ys == FirstSeen([i \in DOMAIN infos |-> infos[i].year])
        ofYear(y) == SelectSeq(infos, LAMBDA x : x.year = y)
        monthsOf(y) == FirstSeen([i \in DOMAIN ofYear(y) |-> ofYear(y)[i].month])
        yearSection(y) ==
            [year |-> y,
             months |-> [k \in DOMAIN monthsOf(y) |->
                            [month |-> monthsOf(y)[k],
                             files |-> SelectSeq(ofYear(y),
                                                 LAMBDA x : x.month = monthsOf(y)[k])]]]
    IN [k \in DOMAIN ys |-> yearSection(ys[k])]

\* GET /dashboard. order is the order in which iterdir yields the directory's
\* files; year and month only travel to the template.
dashboard(w, uid, year, month, order) ==
    LET cu == get_cached_user(w, uid) IN
    IF cu.user = NoUser THEN [w |-> cu.w, resp |-> Redirect(307, "/login", 0)]
    ELSE LET food_path == FoodPath(uid)
             w1 == Mkdir(cu.w, food_path)
             rd == read_manifest_optimized(w1, food_path \o <<"manifest.json">>)
             shown == DashboardShown(order)
             infos == [i \in DOMAIN shown |->
                          DashboardFileInfo(rd.w, cu.user, rd.manifest, shown[i])]
         IN [w |-> rd.w,
             resp |-> TemplateResponse("dashboard.html",
                                       [user |-> cu.user,
                                        files_grouped |-> GroupedFiles(infos),
                                        year |-> year, month |-> month])]

\* GET /admin with the default q = "" (no name filter)
admin_panel(w, admin_id) ==
    LET cu == get_cached_user(w, admin_id)
        admin == cu.user
    IN IF admin = NoUser THEN [w |-> cu.w, resp |-> Redirect(307, "/login", 0)]
       ELSE LET schools ==
                    SelectSeq(cu.w.users,
                              LAMBDA u : /\ u.role = "user"
                                         /\ admin.role = "municipal_admin"
                                               => u.district = admin.district)
            IN [w |-> cu.w,
                resp |-> TemplateResponse("admin.html",
                                          [admin |-> admin, schools |-> schools,
                                           search_query |-> ""])]

Dashboard(uid, year, month, order) ==
    /\ order \in Orders(list_directory_files_optimized(World, FoodPath(uid)))
    /\ LET r == dashboard(World, uid, year, month, order) IN
       /\ SetWorld(r.w)
       /\ resp' = r.resp
    /\ UNCHANGED loop
    /\ req' = [op |-> "dashboard", uid |-> uid, order |-> order]

AdminPanel(admin_id) ==
    /\ LET r == admin_panel(World, admin_id) IN
       /\ SetWorld(r.w)
       /\ resp' = r.resp
    /\ UNCHANGED loop
    /\ req' = [op |-> "admin", admin_id |-> admin_id]

PagesUpload ==
    \E p \in Periods, f \in StoreNames, c \in Contents, ip \in ClientIps :
        Upload(1, p.year, p.month, <<UploadFile(f, c)>>, ip)

PagesDashboard ==
    \E u \in Uids :
        \E o \in Orders(list_directory_files_optimized(World, FoodPath(u))) :
            Dashboard(u, Digits(2025, 4), Digits(5, 2), o)

PagesAdminPanel == \E a \in Uids : AdminPanel(a)

PagesBulkUpload ==
    \E a \in Uids, p \in Periods, c \in Contents, ip \in ClientIps :
        BulkUpload(a, "Obedy", p.year, p.month, <<UploadFile(<<"a.pdf">>, c)>>, ip, <<1>>)

NextPages ==
    \/ PagesUpload
    \/ PagesDashboard
    \/ PagesAdminPanel
    \/ PagesBulkUpload
    \/ ListingFederalIndex
    \/ ExpireManifestAny
    \/ Tick

SpecPages == InitStore /\ [][NextPages]_vars

\* SpecGroups: two files and the sidecar uploaded and deleted at different
\* minutes, and both listings of the directory
GroupsNames == {<<"a.pdf">>, <<"b.pdf">>, SidecarName}

GroupsUpload ==
    \E p \in Periods, f \in GroupsNames, c \in Contents, ip \in ClientIps :
        Upload(1, p.year, p.month, <<UploadFile(f, c)>>, ip)

GroupsDeleteFile == \E f \in GroupsNames : DeleteFile(1, f)

GroupsDashboard ==
    \E o \in Orders(list_directory_files_optimized(World, FoodPath(1))) :
        Dashboard(1, Digits(2025, 4), Digits(5, 2), o)

GroupsFederalIndex ==
    \E o \in Orders(list_directory_files_optimized(World, FoodPath(1))) :
        FederalIndex(1, o)

NextGroups ==
    \/ GroupsUpload
    \/ GroupsDeleteFile
    \/ GroupsDashboard
    \/ GroupsFederalIndex
    \/ ExpireManifestAny
    \/ Tick

SpecGroups == InitStore /\ [][NextGroups]_vars

-----------------------------------------------------------------------------
(* SpecAlias: the manifest dicts as objects. heap.objects holds the dict     *)
(* objects alive, heap.cache the object MANIFEST_CACHE holds for each path,  *)
(* heap.held the objects a caller still holds and where each came from. The  *)
(* variable MANIFEST_CACHE is the value view of heap.cache. The inner entry  *)
(* dicts are shared by a dict and its .copy(); no handler changes one in     *)
(* place, and they are values here.                                          *)

MaxObjects == 3

EmptyHeap == [objects |-> <<>>, cache |-> <<>>, held |-> <<>>]

\* the smallest unused object id
NewId(objects) == CHOOSE n \in 1..(MaxObjects + 2) :
                      /\ n \notin DOMAIN objects
                      /\ \A k \in 1..(n - 1) : k \in DOMAIN objects

\* a dict literal or the result of json.loads: a new object
Alloc(objects, value) ==
    LET n == NewId(objects) IN [objects |-> (n :> value) @@ objects, id |-> n]

DictAlias(objects, id) == [objects |-> objects, id |-> id]

\* d.copy(): a new dict object with the same keys and values
DictCopy(objects, id) == Alloc(objects, objects[id])

\* the dict values MANIFEST_CACHE holds
CacheValues(h) == [p \in DOMAIN h.cache |-> h.objects[h.cache[p]]]

\* reference counting frees what neither a caller nor the cache refers to
Collect(h) ==
    LET live == DOMAIN h.held \cup {h.cache[p] : p \in DOMAIN h.cache}
    IN [h EXCEPT !.objects = [n \in live |-> h.objects[n]]]

Hold(held, id, origin) == (id :> origin) @@ held

\* read_manifest_optimized on objects: the hit returns a copy of the cached
\* dict (line 102); the miss builds manifest, caches a copy of it (line 115)
\* and returns manifest itself (line 116)
read_manifest_ref(w, h, file_path) ==
    IF file_path \in DOMAIN h.cache
    THEN LET c == DictCopy(h.objects, h.cache[file_path]) IN
         [w |-> w,
          h |-> [h EXCEPT !.objects = c.objects,
                          !.held = Hold(@, c.id, [path |-> file_path, by |-> "hit"])],
          id |-> c.id]
    ELSE LET rd == read_manifest_optimized(w, file_path)
             m == Alloc(h.objects, rd.manifest)
             c == DictCopy(m.objects, m.id)
         IN [w |-> rd.w,
             h |-> [objects |-> c.objects,
                    cache |-> (file_path :> c.id) @@ h.cache,
                    held |-> Hold(h.held, m.id, [path |-> file_path, by |-> "miss"])],
             id |-> m.id]

\* write_manifest_optimized on objects: the file gets the dict's dump, the
\* cache a copy of the dict (line 126); the caller keeps its dict
write_manifest_ref(w, h, file_path, id) ==
    LET wr == write_manifest_optimized(w, file_path, h.objects[id])
        c == DictCopy(h.objects, id)
    IN IF ~wr.ok THEN [w |-> wr.w, h |-> h, ok |-> FALSE]
       ELSE [w |-> wr.w,
             h |-> [objects |-> c.objects,
                    cache |-> (file_path :> c.id) @@ h.cache,
                    held |-> Hold(h.held, id, [path |-> file_path, by |-> "written"])],
             ok |-> TRUE]

\* the world with MANIFEST_CACHE read off the objects
SetAliased(w, h) ==
    /\ SetWorld([w EXCEPT !.MANIFEST_CACHE = CacheValues(Collect(h))])
    /\ heap' = Collect(h)
    /\ UNCHANGED <<tasks, CACHE_LOCK>>

HasRoom(n) == Cardinality(DOMAIN heap.objects) + n <= MaxObjects

AliasRead(path) ==
    /\ HasRoom(IF path \in DOMAIN heap.cache THEN 1 ELSE 2)
    /\ LET r == read_manifest_ref(World, heap, path) IN
       /\ SetAliased(r.w, r.h)
       /\ req' = [op |-> "read_manifest", path |-> path, id |-> r.id]
       /\ resp' = Returned(r.h.objects[r.id], 0)

AliasWrite(path, id) ==
    /\ HasRoom(1)
    /\ id \in DOMAIN heap.held
    /\ LET r == write_manifest_ref(World, heap, path, id) IN
       /\ SetAliased(r.w, r.h)
       /\ req' = [op |-> "write_manifest", path |-> path, id |-> id]
       /\ resp' = IF r.ok THEN Returned(<<>>, 0) ELSE Raised

\* a caller's manifest[key] = entry (lines 456, 556)
AliasSetKey(id, key, entry) ==
    /\ id \in DOMAIN heap.held
    /\ SetAliased(World, [heap EXCEPT !.objects[id] = DictSet(@, key, entry)])
    /\ req' = [op |-> "mutate", id |-> id, key |-> key]
    /\ resp' = NoResponse

\* a caller's del manifest[key] / manifest.pop(key) (lines 579, 603)
AliasDelKey(id, key) ==
    /\ id \in DOMAIN heap.held
    /\ key \in DOMAIN heap.objects[id]
    /\ SetAliased(World, [heap EXCEPT !.objects[id] = DictDel(@, key)])
    /\ req' = [op |-> "mutate", id |-> id, key |-> key]
    /\ resp' = NoResponse

\* the caller returns and its dict goes out of scope
AliasDrop(id) ==
    /\ id \in DOMAIN heap.held
    /\ SetAliased(World, [heap EXCEPT !.held = DictDel(@, id)])
    /\ req' = [op |-> "return", id |-> id]
    /\ resp' = NoResponse

\* the TTL of a MANIFEST_CACHE entry runs out
AliasExpire(path) ==
    /\ path \in DOMAIN heap.cache
    /\ SetAliased(World, [heap EXCEPT !.cache = DictDel(@, path)])
    /\ req' = [op |-> "expire", path |-> path]
    /\ resp' = NoResponse

AliasKeys == {<<"a.pdf">>}

\* reads of the registered institution's manifest; writes go to either path
AliasReadAny == AliasRead(ManifestPath(1))
AliasWriteAny == \E u \in Uids, id \in DOMAIN heap.held : AliasWrite(ManifestPath(u), id)
AliasSetKeyAny ==
    \E id \in DOMAIN heap.held, k \in AliasKeys, y \in Years : AliasSetKey(id, k, SampleEntry(y))
AliasDelKeyAny == \E id \in DOMAIN heap.held, k \in AliasKeys : AliasDelKey(id, k)
AliasDropAny == \E id \in DOMAIN heap.held : AliasDrop(id)
AliasExpireAny == \E p \in DOMAIN heap.cache : AliasExpire(p)

InitAlias ==
    /\ WorldIs(StoreWorld)
    /\ req = NoRequest
    /\ resp = NoResponse
    /\ tasks = <<>>
    /\ CACHE_LOCK = 0
    /\ heap = EmptyHeap

NextAlias ==
    \/ AliasReadAny
    \/ AliasWriteAny
    \/ AliasSetKeyAny
    \/ AliasDelKeyAny
    \/ AliasDropAny
    \/ AliasExpireAny

SpecAlias == InitAlias /\ [][NextAlias]_vars

-----------------------------------------------------------------------------
(* Properties *)

\* what reading the institution's manifest returns in world w
ManifestOf(w, uid) == read_manifest_optimized(w, ManifestPath(uid)).manifest

\* the same once the cache entry has expired
ManifestOnDisk(w, uid) ==
    read_manifest_optimized([w EXCEPT !.MANIFEST_CACHE = EmptyDict],
                            ManifestPath(uid)).manifest

IsDigit(c) == c \in 48..57

Num2(s, i) == 10 * (s[i] - 48) + (s[i + 1] - 48)

\* s reads DD.MM.YYYY HH:MM
WellFormedDateTime(s) ==
    /\ Len(s) = 16
    /\ \A i \in {1, 2, 4, 5, 7, 8, 9, 10, 12, 13, 15, 16} : IsDigit(s[i])
    /\ s[3] = 46 /\ s[6] = 46 /\ s[11] = 32 /\ s[14] = 58
    /\ Num2(s, 1) \in 1..31
    /\ Num2(s, 4) \in 1..12
    /\ Num2(s, 12) \in 0..23
    /\ Num2(s, 15) \in 0..59

\* C1: a POST /register whose email has no user record adds exactly one record,
\* leaves the others as they were, and gives it the role regional_admin when
\* secret_code is REGIONAL_CODE, municipal_admin when it is MUNICIPAL_CODE, and
\* user for every other value, the absent one included.
C1_RegisterCreatesOneUser ==
    [][(req'.op = "register" /\ UsersByEmail(World, req'.email) = {}) =>
        /\ Len(users') = Len(users) + 1
        /\ SubSeq(users', 1, Len(users)) = users
        /\ users'[Len(users')].email = req'.email
        /\ users'[Len(users')].role =
              (IF req'.secret_code = REGIONAL_CODE THEN "regional_admin"
               ELSE IF req'.secret_code = MUNICIPAL_CODE THEN "municipal_admin"
               ELSE "user")]_vars

C1_Witness ==
    /\ req.op = "register"
    /\ resp.kind = "redirect"
    /\ Len(users) = 2
    /\ req.secret_code = MUNICIPAL_CODE
    /\ users[2].role = "municipal_admin"
    /\ users[1].role = "user"

\* C2: a POST /register whose email already has a user record adds no record,
\* changes no record, creates no directory, and answers with the plain-text
\* failure message, not a redirect.
C2_RegisterDuplicateEmail ==
    [][(req'.op = "register" /\ UsersByEmail(World, req'.email) # {}) =>
        /\ users' = users
        /\ dirs' = dirs
        /\ files' = files
        /\ resp' = PlainText("user exists")]_vars

C2_Witness ==
    /\ req.op = "register"
    /\ resp.kind = "text"
    /\ UsersByEmail(World, req.email) # {}
    /\ users[CHOOSE i \in UsersByEmail(World, req.email) : TRUE].hashed_password
          # get_password_hash(req.password)

\* C3: POST /login answers with a 303 redirect exactly when a user record has the
\* submitted email and the password verifies against its digest; the target is
\* /admin?admin_id={id} when the role contains "admin" and /dashboard?uid={id}
\* otherwise; in every other case the answer is the plain-text failure message;
\* and login changes no state.
C3_LoginRedirects ==
    [][req'.op = "login" =>
        LET ok == {i \in 1..Len(users) :
                      /\ users[i].email = req'.email
                      /\ verify_password(req'.password, users[i].hashed_password)}
        IN /\ UNCHANGED <<users, dirs, files, MANIFEST_CACHE, USER_CACHE,
                          FILE_EXISTS_CACHE, clock>>
           /\ (resp'.kind = "redirect" /\ resp'.status = 303) <=> ok # {}
           /\ \A i \in ok :
                 resp' = IF users[i].role \in {"regional_admin", "municipal_admin"}
                         THEN Redirect(303, "/admin", users[i].id)
                         ELSE Redirect(303, "/dashboard", users[i].id)
           /\ ok = {} => resp' = PlainText("bad login")]_vars

C3_Witness ==
    /\ req.op = "login"
    /\ resp = Redirect(303, "/admin", 2)
    /\ Len(users) = 3
    /\ users[3].role = "user"

\* C4: after a POST /upload for institution U with year Y, month M and a file of
\* non-empty name F has completed, F exists in U's food directory and reading
\* U's manifest (from the cache, and from disk once the entry has expired)
\* returns an entry for F with assigned_year = Y, assigned_month = M and an
\* upload_datetime of the form DD.MM.YYYY HH:MM, whatever uploads and deletes
\* came before.
C4_UploadRecorded ==
    (req.op = "upload" /\ resp.kind = "redirect") =>
        \A i \in DOMAIN req.names :
            LET F == req.names[i] IN
            F # EmptyName =>
                /\ IsFile(World, FoodPath(req.uid) \o F)
                /\ \A m \in {ManifestOf(World, req.uid), ManifestOnDisk(World, req.uid)} :
                      /\ F \in DOMAIN m
                      /\ m[F].assigned_year = req.year
                      /\ m[F].assigned_month = req.month
                      /\ WellFormedDateTime(m[F].upload_datetime)

C4_Witness ==
    /\ req.op = "upload"
    /\ resp.kind = "redirect"
    /\ req.names = <<<<"a.pdf">>, SidecarName>>
    /\ req.year = Digits(2025, 4)
    /\ clock = MaxClock
    /\ ManifestOf(World, 1)[<<"a.pdf">>].upload_datetime = Strftime(get_msk_time(World))

\* C5: for /delete-file and /delete-files alike: deleting a filename that
\* exists removes the file from the food directory and its manifest entry;
\* deleting one that does not exist (also for an institution with no file, no
\* manifest or no directory) raises no error, redirects (303) to the dashboard
\* and leaves the manifest unchanged for that key.
C5_DeleteClaim ==
    [][req'.op \in {"delete-file", "delete-files"} =>
        \A i \in DOMAIN req'.names :
            LET F == req'.names[i]
                path == FoodPath(req'.uid) \o F
            IN IF IsFile(World, path)
               THEN /\ ~PathExists(World', path)
                    /\ F \notin DOMAIN ManifestOf(World', req'.uid)
               ELSE /\ resp' = Redirect(303, "/dashboard", req'.uid)
                    /\ (F \in DOMAIN ManifestOf(World', req'.uid))
                          <=> (F \in DOMAIN ManifestOf(World, req'.uid))]_vars

\* C10: after a delete of a file has completed, the next existence check for
\* that path (GET /{uid}/food/{filename}) finds the file absent and answers
\* 404, also when an earlier check or upload had cached the path as present.
C10_DeleteThenNotFound ==
    [][(req'.op \in {"delete-file", "delete-files"} /\ resp'.kind = "redirect") =>
        \A i \in DOMAIN req'.names :
            LET F == req'.names[i] IN
            IsFile(World, FoodPath(req'.uid) \o F) =>
                get_federal_file(World', req'.uid, F).resp = HttpError(404)]_vars

\* C9, as claimed: after write_manifest(path, M) has completed, a
\* read_manifest(path) with no write to the path in between returns M and reads
\* nothing from the filesystem. (Under SpecManifest a manifest file exists
\* exactly when a write to its path has completed, and holds what the last
\* such write was given.)
C9_ReadAfterWriteNeverTouchesDisk ==
    [][(req'.op = "read_manifest" /\ IsFile(World, req'.path)) =>
        /\ resp'.body = JsonLoadsOrEmpty(files[req'.path])
        /\ resp'.id = 0]_vars

\* C9, amended: after write_manifest(path, M) has completed, a
\* read_manifest(path) with no write to the path in between returns M; it reads
\* nothing from the filesystem when it follows the write at once, and whenever
\* the path's cache entry has not expired or been evicted.
C9_ReadAfterWrite ==
    [][req'.op = "read_manifest" =>
        /\ IsFile(World, req'.path) =>
              /\ resp'.body = JsonLoadsOrEmpty(files[req'.path])
              /\ req'.path \in DOMAIN MANIFEST_CACHE => resp'.id = 0
        /\ (req.op = "write_manifest" /\ resp.kind = "return" /\ req.path = req'.path) =>
              /\ resp'.body = req.manifest
              /\ resp'.id = 0]_vars

C9_Witness ==
    /\ req.op = "read_manifest"
    /\ resp.id = 0
    /\ SidecarName \in DOMAIN resp.body
    /\ req.path \in DOMAIN MANIFEST_CACHE
    /\ MANIFEST_CACHE[req.path] = resp.body

\* the number a string of decimal digits denotes
RECURSIVE NumberOf(_)
NumberOf(s) == IF s = <<>> THEN 0 ELSE 10 * NumberOf(SubSeq(s, 1, Len(s) - 1)) + (s[Len(s)] - 48)

\* the calendar month a localized month name denotes
MonthNumber(name) == CHOOSE n \in 1..12 : MonthName(n) = name

\* C8 (federal listing): whatever files with assigned years and months an
\* institution holds, GET /{uid}/food/ presents their years, in descending
\* order, and within a year the months in descending calendar order (month 12
\* first, month 01 last).
C8_ListingDescending ==
    (req.op = "federal-index") =>
        LET m == ManifestOf(World, req.uid)
            names == {n \in list_directory_files_optimized(World, FoodPath(req.uid)) :
                         n # "manifest.json" /\ <<n>> \in DOMAIN m}
        IN /\ resp.kind = "html"
           /\ {m[<<n>>].assigned_year : n \in names}
                 \subseteq {resp.body[k].year : k \in DOMAIN resp.body}
           /\ \A i, j \in DOMAIN resp.body :
                 i < j => NumberOf(resp.body[i].year) > NumberOf(resp.body[j].year)
           /\ \A k \in DOMAIN resp.body :
                 \A i, j \in DOMAIN resp.body[k].months :
                     i < j => MonthNumber(resp.body[k].months[i].month)
                                 > MonthNumber(resp.body[k].months[j].month)

\* the files below an institution's food directory
FoodFiles(w, uid) ==
    LET at == FoodPath(uid) IN
    [q \in {q \in DOMAIN w.files : Len(q) > Len(at) /\ SubSeq(q, 1, Len(at)) = at}
        |-> w.files[q]]

\* C6: a POST /bulk-upload with target_type T by admin A writes files and
\* manifest entries only into institutions whose role is user and whose
\* food_type is T and, when A's role is municipal_admin, whose district is A's;
\* the files and the manifest of every other institution are unchanged.
C6_BulkUploadReach ==
    [][req'.op = "bulk-upload" =>
        \A u \in 1..Len(users) :
            LET A == UserById(World, req'.admin_id)
                reached == /\ users[u].role = "user"
                           /\ users[u].food_type = req'.target_type
                           /\ A.role = "municipal_admin" => users[u].district = A.district
            IN ~reached =>
                  /\ FoodFiles(World', u) = FoodFiles(World, u)
                  /\ ManifestOf(World', u) = ManifestOf(World, u)
                  /\ ManifestOnDisk(World', u) = ManifestOnDisk(World, u)]_vars

\* C7: after a POST /bulk-upload that matches N >= 2 institutions has
\* completed, each of the N institutions holds every uploaded file of non-empty
\* name with the bytes the admin submitted, and a manifest entry for it.
C7_BulkUploadCopies ==
    (req.op = "bulk-upload" /\ resp = Redirect(303, "/admin", req.admin_id)) =>
        LET schools == TargetSchools(World, UserById(World, req.admin_id), req.target_type)
        IN Cardinality(schools) >= 2 =>
              \A u \in schools : \A i \in DOMAIN req.files :
                  LET f == req.files[i]
                      path == FoodPath(u) \o f.filename
                  IN f.filename # EmptyName =>
                        /\ IsFile(World, path)
                        /\ files[Resolve(World, path).at].bytes = f.content
                        /\ f.filename \in DOMAIN ManifestOf(World, u)

\* the uploads that have completed with a redirect, all other tasks being idle
UploadsDone ==
    {t \in DOMAIN tasks : tasks[t].op = "upload" /\ tasks[t].pc = "done"
                             /\ tasks[t].resp.kind = "redirect"}

\* C11: when two uploads to one institution have completed and they overlapped,
\* the manifest file holds the manifest written by the one whose write reached
\* the file last, and the file of the other is still in the food directory;
\* when they did not overlap, the manifest holds both entries.
C11_LastWriteWins ==
    \A a, b \in UploadsDone :
        (/\ a # b
         /\ tasks[a].uid = tasks[b].uid
         /\ tasks[a].landed < tasks[b].landed
         /\ \A t \in DOMAIN tasks : t \notin {a, b} => tasks[t].pc = "idle") =>
            /\ IsFile(World, FoodPath(tasks[a].uid) \o tasks[a].filename)
            /\ IsFile(World, FoodPath(tasks[b].uid) \o tasks[b].filename)
            /\ tasks[b].overlapped =>
                  ManifestOnDisk(World, tasks[b].uid) = tasks[b].manifest
            /\ ~tasks[b].overlapped =>
                  \A m \in {ManifestOf(World, tasks[b].uid),
                             ManifestOnDisk(World, tasks[b].uid)} :
                      {tasks[a].filename, tasks[b].filename} \subseteq DOMAIN m

\* C12: every step that reads or writes MANIFEST_CACHE, USER_CACHE or
\* FILE_EXISTS_CACHE, the counts read by /health and the clearing at shutdown
\* included, is taken by a coroutine that holds CACHE_LOCK while it does, and at
\* most one coroutine is inside a cache critical section at any time.
C12_CachesUnderLock ==
    /\ (req.op \notin {"none", "expire"} /\ req.cache) => req.held
    /\ Cardinality({t \in DOMAIN tasks : tasks[t].pc \in HoldingPcs}) <= 1
    /\ \A t \in DOMAIN tasks : tasks[t].pc \in HoldingPcs => CACHE_LOCK = t

\* C13: in every reachable state, overlapping registrations of one email
\* included, no two user records share an email, and every register request
\* that has ended did so with its record created and the redirect to /login, or
\* with the duplicate-email failure message.
C13_EmailUnique ==
    /\ \A i, j \in 1..Len(users) : users[i].email = users[j].email => i = j
    /\ \A t \in DOMAIN tasks :
          (tasks[t].op = "register" /\ tasks[t].pc = "done") =>
              \/ /\ tasks[t].resp = Redirect(303, "/login", 0)
                 /\ tasks[t].id \in UsersByEmail(World, tasks[t].email)
              \/ tasks[t].resp = PlainText("user exists")

\* the filenames a grouped listing presents
SectionNames(sections) ==
    {sections[y].months[m].files[i].filename :
        <<y, m, i>> \in {t \in (DOMAIN sections) \X (1..8) \X (1..8) :
                           /\ t[2] \in DOMAIN sections[t[1]].months
                           /\ t[3] \in DOMAIN sections[t[1]].months[t[2]].files}}

\* C14: neither the dashboard's grouping nor the federal listing presents the
\* sidecar manifest.json among the files.
C14_SidecarNeverShown ==
    /\ (req.op = "dashboard" /\ resp.kind = "template")
          => "manifest.json" \notin SectionNames(resp.body.files_grouped)
    /\ (req.op = "federal-index" /\ resp.kind \in {"html", "stream-aborted"})
          => "manifest.json" \notin SectionNames(resp.body)

\* the dashboard presents a file of a directory that also holds the sidecar
C14_Witness ==
    /\ req.op = "dashboard"
    /\ resp.kind = "template"
    /\ ManifestPath(1) \in DOMAIN files
    /\ "manifest.json" \in {req.order[i] : i \in DOMAIN req.order}
    /\ "a.pdf" \in SectionNames(resp.body.files_grouped)

\* C15: GET /dashboard, GET /admin and POST /bulk-upload naming an id with no
\* user record answer with a redirect to /login and change no directory, file,
\* manifest or cache entry.
C15_UnknownIdRedirects ==
    [][LET id == IF req'.op = "dashboard" THEN req'.uid
                 ELSE IF req'.op \in {"admin", "bulk-upload"} THEN req'.admin_id
                 ELSE 1
       IN (req'.op \in {"dashboard", "admin", "bulk-upload"}
              /\ UserById(World, id) = NoUser)
          => /\ resp' = Redirect(307, "/login", 0)
             /\ UNCHANGED <<users, dirs, files, MANIFEST_CACHE, USER_CACHE,
                            FILE_EXISTS_CACHE>>]_vars

\* an unknown id asked for the admin page of a store that holds files, and was
\* redirected
C15_Witness ==
    /\ req.op \in {"dashboard", "admin", "bulk-upload"}
    /\ (IF req.op = "dashboard" THEN req.uid ELSE req.admin_id) = 2
    /\ UserById(World, 2) = NoUser
    /\ resp = Redirect(307, "/login", 0)
    /\ DOMAIN files # {}
    /\ DOMAIN MANIFEST_CACHE # {}

\* C16: adding, replacing or removing a key of a dict that read_manifest
\* returned or that was passed to write_manifest leaves the value held in
\* MANIFEST_CACHE as it was; the value cached for a path appears or changes
\* only in a write_manifest of that path or in a read of it that missed.
C16_NoAliasing ==
    [][/\ req'.op = "mutate" => MANIFEST_CACHE' = MANIFEST_CACHE
       /\ \A p \in DOMAIN MANIFEST_CACHE' :
             (p \notin DOMAIN MANIFEST_CACHE \/ MANIFEST_CACHE'[p] # MANIFEST_CACHE[p])
             => \/ req'.op = "write_manifest" /\ req'.path = p
                \/ req'.op = "read_manifest" /\ req'.path = p
                      /\ p \notin DOMAIN MANIFEST_CACHE]_vars

\* a caller changed a dict it got from a cache hit, or one it had passed to
\* write_manifest, and the dict now differs from the one cached for that path
C16_Witness ==
    /\ req.op = "mutate"
    /\ req.id \in DOMAIN heap.held
    /\ heap.held[req.id].by \in {"hit", "written"}
    /\ heap.held[req.id].path \in DOMAIN MANIFEST_CACHE
    /\ heap.objects[req.id] # MANIFEST_CACHE[heap.held[req.id].path]

\* the (filename, year, month) placements a grouped listing makes
Placements(sections) ==
    {<<sections[t[1]].months[t[2]].files[t[3]].filename, sections[t[1]].year,
       sections[t[1]].months[t[2]].month>> :
        t \in {t \in (DOMAIN sections) \X (1..8) \X (1..8) :
                  /\ t[2] \in DOMAIN sections[t[1]].months
                  /\ t[3] \in DOMAIN sections[t[1]].months[t[2]].files}}

\* the group the file called name belongs to: its manifest entry's year and
\* month, else those of its last-modified time
EffectiveGroup(w, uid, name) ==
    LET manifest == ManifestOf(w, uid)
        modified == FromTimestamp(w.files[FoodPath(uid) \o <<name>>].mtime)
    IN IF <<name>> \in DOMAIN manifest
       THEN <<name, manifest[<<name>>].assigned_year,
              MonthsGet(manifest[<<name>>].assigned_month)>>
       ELSE <<name, Digits(modified.year, 4), MonthsGet(Digits(modified.month, 2))>>

\* the files of the institution's directory a listing is to present
PresentedFiles(w, uid) ==
    list_directory_files_optimized(w, FoodPath(uid)) \ {"manifest.json"}

\* the sections a dashboard or federal listing response carries
ListedSections ==
    IF req.op = "dashboard" /\ resp.kind = "template" THEN resp.body.files_grouped
    ELSE IF req.op = "federal-index" /\ resp.kind \in {"html", "stream-aborted"}
         THEN resp.body
         ELSE <<>>

\* C17: the dashboard and the federal listing put every file of the directory
\* in the group of its manifest entry's assigned year and month, or, when it
\* has no entry, in the group of the year and month of its last-modified time.
C17_SameGroup ==
    (\/ req.op = "dashboard" /\ resp.kind = "template"
     \/ req.op = "federal-index" /\ resp.kind \in {"html", "stream-aborted"})
    => \A name \in PresentedFiles(World, req.uid) :
          EffectiveGroup(World, req.uid, name) \in Placements(ListedSections)

\* (year, month, day, hour, minute) of a DD.MM.YYYY HH:MM string
Instant(date) ==
    LET dt == Strptime(date).dt IN <<dt.year, dt.month, dt.day, dt.hour, dt.minute>>

\* the file lists of the groups of a listing
GroupLists(sections) ==
    {sections[t[1]].months[t[2]].files :
        t \in {t \in (DOMAIN sections) \X (1..8) : t[2] \in DOMAIN sections[t[1]].months}}

\* C18: in the dashboard and in the federal listing, the files of one (year,
\* month) group are listed latest upload first: no file stands before one whose
\* upload_datetime is a later instant; and the listing asked for is produced.
C18_LatestFirst ==
    /\ \A fs \in GroupLists(ListedSections) :
          \A i, j \in DOMAIN fs : i < j => ~SeqLess(Instant(fs[i].date), Instant(fs[j].date))
    /\ req.op = "federal-index" => resp.kind # "stream-aborted"

\* C19: a coroutine that is about to acquire CACHE_LOCK does not hold it; a
\* coroutine that holds it is one suspended inside a critical section, so the
\* lock is released on every way out of one and a finished request holds
\* nothing; and when every runnable coroutine is eventually resumed, every
\* request that was accepted completes.
C19_NoDeadlock ==
    /\ [](\A t \in Tasks : tasks[t].pc \in AcquirePcs => CACHE_LOCK # t)
    /\ [](\A t \in Tasks : CACHE_LOCK = t => tasks[t].pc \in HoldingPcs)
    /\ \A t \in Tasks : InFlight(tasks[t]) ~> tasks[t].pc = "done"

\* every request is done, the lock is free, and one of them had found the lock
\* held and waited for it
C19_Witness ==
    /\ \A t \in Tasks : tasks[t].pc = "done"
    /\ CACHE_LOCK = 0
    /\ \E t \in Tasks : tasks[t].waited

\* C20: whenever no request is in flight, each path MANIFEST_CACHE has an entry
\* for holds, on disk, the manifest the entry holds (a read of the file gives
\* the cached dict), however the uploads and deletes before interleaved.
C20_CacheMatchesDisk ==
    (\A t \in DOMAIN tasks : ~InFlight(tasks[t]))
    => \A uid \in Uids :
          ManifestPath(uid) \in DOMAIN MANIFEST_CACHE
          => MANIFEST_CACHE[ManifestPath(uid)] = ManifestOnDisk(World, uid)

\* C21: whenever no request is in flight, every path FILE_EXISTS_CACHE holds
\* True for exists on disk, however the uploads, deletes and downloads before
\* interleaved; and a download answered from the cache serves a file that is
\* there.
C21_ExistsCacheTrue ==
    /\ (\A t \in DOMAIN tasks : ~InFlight(tasks[t]))
          => \A p \in DOMAIN FILE_EXISTS_CACHE :
                FILE_EXISTS_CACHE[p] => PathExists(World, p)
    /\ \A t \in DOMAIN tasks :
          (tasks[t].op = "get-file" /\ tasks[t].pc = "done" /\ req.task = t
              /\ req.pc = "gf_lock")
          => tasks[t].resp.kind # "error" \/ tasks[t].resp.status = 404

\* C22: a /delete-file or /delete-files request naming filenames Fs for
\* institution U leaves every other file of the store as it was, leaves the
\* sidecar of U in place, and leaves the manifest entry of every filename not
\* in Fs as it was, in what a read returns now and in what the file on disk
\* holds; Fs may contain any name, "manifest.json" included.
C22_DeleteFrame ==
    [][req'.op \in {"delete-file", "delete-files"} =>
        LET U == req'.uid
            Fs == {req'.names[i] : i \in DOMAIN req'.names}
            named == {FoodPath(U) \o F : F \in Fs}
        IN /\ \A p \in DOMAIN files :
                 (p \notin named /\ p # ManifestPath(U))
                 => p \in DOMAIN files' /\ files'[p] = files[p]
           /\ ManifestPath(U) \in DOMAIN files => ManifestPath(U) \in DOMAIN files'
           /\ \A G \in DOMAIN ManifestOf(World, U) \ Fs :
                 /\ G \in DOMAIN ManifestOf(World', U)
                 /\ ManifestOf(World', U)[G] = ManifestOf(World, U)[G]
           /\ \A G \in DOMAIN ManifestOnDisk(World, U) \ Fs :
                 /\ G \in DOMAIN ManifestOnDisk(World', U)
                 /\ ManifestOnDisk(World', U)[G] = ManifestOnDisk(World, U)[G]]_vars

\* p lies inside the food directory of institution uid
InsideFood(uid, p) ==
    /\ Len(p) > Len(FoodPath(uid))
    /\ SubSeq(p, 1, Len(FoodPath(uid))) = FoodPath(uid)

\* C23: whatever filename an /upload, /delete-file or /delete-files request
\* of institution U carries, every file it creates, overwrites or removes lies
\* inside {root}/U/food; the files and the manifest of every other institution
\* stay as they were.
C23_StaysInsideFood ==
    [][req'.op \in {"upload", "delete-file", "delete-files"} =>
        /\ \A p \in DOMAIN files \cup DOMAIN files' :
              (p \notin DOMAIN files \/ p \notin DOMAIN files' \/ files'[p] # files[p])
              => InsideFood(req'.uid, p)
        /\ \A v \in 1..Len(users) :
              v # req'.uid => ManifestOnDisk(World', v) = ManifestOnDisk(World, v)]_vars

====
